---- MODULE Spec2Model ----
(***************************************************************************)
(* Send / log / reconcile pipeline of the email plugin: the send handlers  *)
(* (/email/send, /email/send-system), the webhook handler (/email/webhook) *)
(* and the pure helpers of utils.ts they call.                             *)
(*                                                                         *)
(* Strings that the code inspects character by character (addresses) are   *)
(* sequences of one-character strings; an absent (undefined) string of     *)
(* that kind is the one-element sequence Absent.  Symbolic strings         *)
(* (statuses, ids, messages) are TLA+ strings and None is the absent one.  *)
(* Dates are positive integers and NoDate is the absent date.              *)
(***************************************************************************)
EXTENDS Integers, Sequences, FiniteSets, TLC

VARIABLES options, store, now, send, wh, sendCount, whCount, bulk, bh, report,
          call, query, deliveries

\* The send / webhook pipeline's variables, and those of the other parts.
pipeline == <<options, store, now, send, wh, sendCount, whCount>>
others == <<bulk, bh, report, call, query, deliveries>>

vars == <<pipeline, others>>

\* ------------------------------------------------------------------ bounds
MaxSends == 2
MaxLogged == 2
MaxWebhooks == 2
MaxTime == 2
MaxEmails == 23
MaxBulkSize == 2
MaxLogs == 5
MaxAddresses == 3
MaxRows == 2

\* ---------------------------------------------------------------- constants
None == "none"
Unset == "unset"
NoDate == 0
UnsetDate == -1
Absent == <<"undefined">>
AbsentList == <<Absent>>
NoId == <<"none", 0>>
UnsetId == <<"unset", 0>>

Providers == {"resend", "sendgrid", "bravo"}
Users == {"u1", "u2"}
ErrorMsgs == {"x"}

Statuses ==
  {"pending", "sent", "delivered", "opened", "clicked", "bounced",
   "complained", "failed", "delivery_delayed"}

EMAIL_ERROR_CODES ==
  [SEND_FAILED |-> "Failed to send email",
   ADAPTER_NOT_FOUND |-> "Email adapter not found",
   INVALID_EMAIL_ADDRESS |-> "Invalid email address format",
   INVALID_WEBHOOK_PAYLOAD |-> "Invalid webhook payload"]

\* ------------------------------------------------------------ pure helpers
Whitespace == {" ", "\t", "\n"}

\* /^[^\s@]+@[^\s@]+\.[^\s@]+$/ : one "@" at position i, a "." at a later
\* position j, a non-empty run before i, between i and j and after j, and no
\* whitespace and no other "@" anywhere.
isValidEmail(email) ==
  \E i \in 1..Len(email), j \in 1..Len(email) :
    /\ 1 < i /\ i + 1 < j /\ j < Len(email)
    /\ email[i] = "@"
    /\ email[j] = "."
    /\ \A k \in (1..Len(email)) \ {i} : email[k] \notin Whitespace \cup {"@"}

SelectInvalid(emails) == SelectSeq(emails, LAMBDA e : ~isValidEmail(e))

\* A validateEmailArray that tests the first address only.
validateEmailArray_FirstOnly(emails) ==
  IF Len(emails) > 0 /\ ~isValidEmail(emails[1])
  THEN [ok |-> FALSE, value |-> <<>>, invalid |-> <<emails[1]>>]
  ELSE [ok |-> TRUE, value |-> emails, invalid |-> <<>>]

\* validateEmailArray: the array itself, or an exception naming the invalid
\* addresses.
validateEmailArray(emails) ==
  IF Len(SelectInvalid(emails)) > 0
  THEN [ok |-> FALSE, value |-> <<>>, invalid |-> SelectInvalid(emails)]
  ELSE [ok |-> TRUE, value |-> emails, invalid |-> <<>>]

RECURSIVE Join(_)
Join(arr) ==
  IF Len(arr) = 0 THEN <<>>
  ELSE IF Len(arr) = 1 THEN arr[1]
  ELSE arr[1] \o <<",">> \o Join(Tail(arr))

\* arrayToString: arr && arr.length > 0 ? arr.join(",") : undefined
arrayToString(arr) ==
  IF arr # AbsentList /\ Len(arr) > 0 THEN Join(arr) ELSE Absent

\* JavaScript truthiness of an optional string, and a || b
Truthy(s) == s # Absent /\ s # <<>>

\* str.split(","): the runs between the commas of str, empty ones included.
RECURSIVE Split(_)
Split(str) ==
  IF \A k \in 1..Len(str) : str[k] # "," THEN <<str>>
  ELSE LET k == CHOOSE c \in 1..Len(str) :
                  /\ str[c] = ","
                  /\ \A b \in 1..(c - 1) : str[b] # ","
       IN <<SubSeq(str, 1, k - 1)>> \o Split(SubSeq(str, k + 1, Len(str)))

\* stringToArray: str ? str.split(",").filter(Boolean) : undefined
stringToArray(str) ==
  IF Truthy(str) THEN SelectSeq(Split(str), LAMBDA part : part # <<>>)
  ELSE AbsentList
OrElse(a, b) == IF Truthy(a) THEN a ELSE b

First(arr) == IF Len(arr) > 0 THEN arr[1] ELSE Absent

\* A determineContentType that tests html before the pair.
determineContentType_HtmlFirst(html, text) ==
  IF Truthy(html) THEN "html"
  ELSE IF Truthy(html) /\ Truthy(text) THEN "mixed"
  ELSE IF Truthy(text) THEN "text"
  ELSE "throw"

\* determineContentType: html and text are optional strings
determineContentType(html, text) ==
  IF Truthy(html) /\ Truthy(text) THEN "mixed"
  ELSE IF Truthy(html) THEN "html"
  ELSE IF Truthy(text) THEN "text"
  ELSE "throw"

\* A webhookEventToStatus whose switch lacks the delivery_delayed case.
webhookEventToStatus_NoDelayed(eventType) ==
  CASE eventType = "email.sent" -> "sent"
    [] eventType = "email.delivered" -> "delivered"
    [] eventType = "email.opened" -> "opened"
    [] eventType = "email.clicked" -> "clicked"
    [] eventType = "email.bounced" -> "bounced"
    [] eventType = "email.complained" -> "complained"
    [] eventType = "email.failed" -> "failed"
    [] OTHER -> "pending"

webhookEventToStatus(eventType) ==
  CASE eventType = "email.sent" -> "sent"
    [] eventType = "email.delivered" -> "delivered"
    [] eventType = "email.opened" -> "opened"
    [] eventType = "email.clicked" -> "clicked"
    [] eventType = "email.bounced" -> "bounced"
    [] eventType = "email.complained" -> "complained"
    [] eventType = "email.failed" -> "failed"
    [] eventType = "email.delivery_delayed" -> "delivery_delayed"
    [] OTHER -> "pending"

\* ------------------------------------------------------------ sample inputs
A1 == <<"a", "@", "b", ".", "c">>
A2 == <<"d", "@", "e", ".", "f">>
Bad == <<"a", "@", "b">>
Html == <<"h">>
Text == <<"t">>

\* ------------------------------------------------------------------ records
\* An EmailLog row (types.ts EmailLog / DatabaseEmailLog).
NewLogData(from, to, cc, bcc, contentType, provider, userId) ==
  [id |-> NoId,
   fromAddress |-> from, toAddress |-> to, ccAddress |-> cc,
   bccAddress |-> bcc, contentType |-> contentType,
   status |-> "pending", provider |-> provider, providerId |-> NoId,
   userId |-> userId, errorMessage |-> None,
   sentAt |-> NoDate, deliveredAt |-> NoDate, openedAt |-> NoDate,
   clickedAt |-> NoDate, bouncedAt |-> NoDate, complainedAt |-> NoDate,
   failedAt |-> NoDate, createdAt |-> NoDate, updatedAt |-> NoDate]

EmptyLogData == NewLogData(Absent, Absent, Absent, Absent, None, None, None)

\* SendEmailResponse, or the exception the adapter call raised.
Outcome(kind, success, providerId, error) ==
  [kind |-> kind, success |-> success, providerId |-> providerId,
   error |-> error]

NoOutcome == Outcome("none", FALSE, NoId, None)

\* What the caller of an endpoint observes: a response or an APIError.
NoResult ==
  [kind |-> "none", status |-> None, code |-> None, message |-> None,
   emailId |-> NoId, providerId |-> NoId]

ApiError(status, message, code) ==
  [kind |-> "error", status |-> status, code |-> code, message |-> message,
   emailId |-> NoId, providerId |-> NoId]

SendOk(emailId, providerId) ==
  [kind |-> "ok", status |-> "OK", code |-> None,
   message |-> "Email sent successfully",
   emailId |-> emailId, providerId |-> providerId]

IdleSend ==
  [pc |-> "idle", endpoint |-> None, adapter |-> None, data |-> EmptyLogData,
   emailLogId |-> NoId, sendResult |-> NoOutcome,
   result |-> NoResult, calls |-> <<>>, base |-> 0]

\* --------------------------------------------------------- adapter registry
\* getDefaultAdapter: the adapter registered under the default provider, or
\* None where the code throws ADAPTER_NOT_FOUND.
DefaultProviderName ==
  IF options.defaultProvider # None THEN options.defaultProvider ELSE "resend"

getDefaultAdapter ==
  IF DefaultProviderName \in options.adapters THEN DefaultProviderName
  ELSE None

\* A resolution that does not fall back when the named provider is not
\* registered.
ResolveAdapter_NoFallback(provider) ==
  IF provider = None THEN getDefaultAdapter
  ELSE IF provider \in options.adapters THEN provider
  ELSE None

\* ctx.body.provider ? adapters.get(provider) || getDefaultAdapter()
\*                   : getDefaultAdapter()
ResolveAdapter(provider) ==
  IF provider # None /\ provider \in options.adapters THEN provider
  ELSE getDefaultAdapter

\* The id the vendor assigns to the n-th message handed to it.
MessageIdOf(n) == <<"msg", n>>

\* Adapters whose SendGrid variant gets past validateEmailData and returns
\* its success outcome, which has an id and no providerId.
AdapterOutcomes_SendGridReturns(name, n) ==
  CASE name = "resend" ->
         {Outcome("return", TRUE, MessageIdOf(n), None)}
         \cup {Outcome("return", FALSE, NoId, e) : e \in ErrorMsgs \cup {None}}
    [] name = "sendgrid" ->
         {Outcome("return", TRUE, NoId, None),
          Outcome("raise", FALSE, NoId, "Sender is required")}
    [] OTHER ->
         {Outcome("raise", FALSE, NoId, "Bravo adapter not yet implemented")}

\* What each shipped adapter variant's sendEmail can do with the n-th send:
\* Resend returns the vendor's message id as providerId, or a failure with
\* the vendor's or the transport's message; SendGrid always raises (the
\* adapter of adapters/sendgrid from validateEmailData, which finds no
\* html, text, templateId or personalizations in the data sendEmail
\* builds, and the placeholder of types.ts by construction); the Bravo
\* placeholder always raises.
AdapterOutcomes(name, n) ==
  CASE name = "resend" ->
         {Outcome("return", TRUE, MessageIdOf(n), None)}
         \cup {Outcome("return", FALSE, NoId, e) : e \in ErrorMsgs \cup {None}}
    [] name = "sendgrid" ->
         {Outcome("raise", FALSE, NoId,
                  "Either html, text, or templateId is required"),
          Outcome("raise", FALSE, NoId, "SendGrid adapter not yet implemented")}
    [] OTHER ->
         {Outcome("raise", FALSE, NoId, "Bravo adapter not yet implemented")}

\* ------------------------------------------------------------- send handler
\* A handler that demands a session on both endpoints.
SendEmailPrepare_AlwaysSession(endpoint, body, session) ==
  LET toV == validateEmailArray(body.to)
      ccV == IF body.cc # AbsentList THEN validateEmailArray(body.cc)
             ELSE [ok |-> TRUE, value |-> AbsentList, invalid |-> <<>>]
      bccV == IF body.bcc # AbsentList THEN validateEmailArray(body.bcc)
              ELSE [ok |-> TRUE, value |-> AbsentList, invalid |-> <<>>]
      fromAddress == OrElse(body.from, options.fromAddress)
      adapter == ResolveAdapter(body.provider)
      contentType == determineContentType(body.html, body.text)
      fail(r) == [IdleSend EXCEPT !.pc = "done", !.endpoint = endpoint,
                                  !.result = r, !.base = Len(store)]
  IN
  IF session = None
    THEN fail(ApiError("UNAUTHORIZED", None, None))
  ELSE IF ~toV.ok \/ ~ccV.ok \/ ~bccV.ok
    THEN fail(ApiError("INTERNAL_SERVER_ERROR", "Invalid email addresses",
                       EMAIL_ERROR_CODES.SEND_FAILED))
  ELSE IF ~Truthy(fromAddress)
    THEN fail(ApiError("BAD_REQUEST", "From address is required",
                       EMAIL_ERROR_CODES.INVALID_EMAIL_ADDRESS))
  ELSE IF adapter = None
    THEN fail(ApiError("INTERNAL_SERVER_ERROR", "Email adapter not found",
                       EMAIL_ERROR_CODES.ADAPTER_NOT_FOUND))
  ELSE IF contentType = "throw"
    THEN fail(ApiError("INTERNAL_SERVER_ERROR",
                       "Either html or text content is required",
                       EMAIL_ERROR_CODES.SEND_FAILED))
  ELSE [IdleSend EXCEPT
          !.pc = "awaitAdapter", !.endpoint = endpoint, !.adapter = adapter,
          !.base = Len(store),
          !.emailLogId = <<"email", sendCount + 1>>,
          !.data = NewLogData(fromAddress,
                              OrElse(arrayToString(toV.value),
                                     First(toV.value)),
                              arrayToString(ccV.value),
                              arrayToString(bccV.value),
                              contentType, adapter,
                              IF endpoint = "send" THEN session ELSE None),
          !.calls = <<"sendEmail">>]

\* First part of the handler of /email/send and /email/send-system, up to
\* the await of adapter.sendEmail.  The result is the next value of send.
SendEmailPrepare(endpoint, body, session) ==
  LET toV == validateEmailArray(body.to)
      ccV == IF body.cc # AbsentList THEN validateEmailArray(body.cc)
             ELSE [ok |-> TRUE, value |-> AbsentList, invalid |-> <<>>]
      bccV == IF body.bcc # AbsentList THEN validateEmailArray(body.bcc)
              ELSE [ok |-> TRUE, value |-> AbsentList, invalid |-> <<>>]
      fromAddress == OrElse(body.from, options.fromAddress)
      adapter == ResolveAdapter(body.provider)
      contentType == determineContentType(body.html, body.text)
      fail(r) == [IdleSend EXCEPT !.pc = "done", !.endpoint = endpoint,
                                  !.result = r, !.base = Len(store)]
  IN
  IF endpoint = "send" /\ session = None
    THEN fail(ApiError("UNAUTHORIZED", None, None))
  ELSE IF ~toV.ok \/ ~ccV.ok \/ ~bccV.ok
    THEN fail(ApiError("INTERNAL_SERVER_ERROR", "Invalid email addresses",
                       EMAIL_ERROR_CODES.SEND_FAILED))
  ELSE IF ~Truthy(fromAddress)
    THEN fail(ApiError("BAD_REQUEST", "From address is required",
                       EMAIL_ERROR_CODES.INVALID_EMAIL_ADDRESS))
  ELSE IF adapter = None
    THEN fail(ApiError("INTERNAL_SERVER_ERROR", "Email adapter not found",
                       EMAIL_ERROR_CODES.ADAPTER_NOT_FOUND))
  ELSE IF contentType = "throw"
    THEN fail(ApiError("INTERNAL_SERVER_ERROR",
                       "Either html or text content is required",
                       EMAIL_ERROR_CODES.SEND_FAILED))
  ELSE [IdleSend EXCEPT
          !.pc = "awaitAdapter", !.endpoint = endpoint, !.adapter = adapter,
          !.base = Len(store),
          !.emailLogId = <<"email", sendCount + 1>>,
          !.data = NewLogData(fromAddress,
                              OrElse(arrayToString(toV.value),
                                     First(toV.value)),
                              arrayToString(ccV.value),
                              arrayToString(bccV.value),
                              contentType, adapter,
                              IF endpoint = "send" THEN session ELSE None),
          !.calls = <<"sendEmail">>]

\* The handler has returned or raised: its locals are gone, the caller sees
\* result, and calls lists the collaborator calls it made.
SendDone(r) ==
  [IdleSend EXCEPT !.pc = "done", !.endpoint = send.endpoint, !.result = r,
                   !.calls = send.calls, !.base = send.base]

SendEmailCall(endpoint, body, session) ==
  /\ send.pc \in {"idle", "done"}
  /\ send' = SendEmailPrepare(endpoint, body, session)
  /\ sendCount' = sendCount + 1
  /\ now' = now + 1
  /\ UNCHANGED <<others, options, store, wh, whCount>>

\* A LogDataAfterSend whose failure branch forgets the status.
LogDataAfterSend_KeepPending(data, sendResult) ==
  IF sendResult.success
  THEN [data EXCEPT !.providerId = sendResult.providerId,
                    !.status = "sent", !.sentAt = now]
  ELSE [data EXCEPT !.failedAt = now,
                    !.errorMessage =
                      IF sendResult.error # None THEN sendResult.error
                      ELSE "Failed to send email"]

\* A LogDataAfterSend whose failure branch records no failedAt.
LogDataAfterSend_NoFailedAt(data, sendResult) ==
  IF sendResult.success
  THEN [data EXCEPT !.providerId = sendResult.providerId,
                    !.status = "sent", !.sentAt = now]
  ELSE [data EXCEPT !.status = "failed",
                    !.errorMessage =
                      IF sendResult.error # None THEN sendResult.error
                      ELSE "Failed to send email"]

\* emailLogData after "Update email log data based on send result".
LogDataAfterSend(data, sendResult) ==
  IF sendResult.success
  THEN [data EXCEPT !.providerId = sendResult.providerId,
                    !.status = "sent", !.sentAt = now]
  ELSE [data EXCEPT !.status = "failed", !.failedAt = now,
                    !.errorMessage =
                      IF sendResult.error # None THEN sendResult.error
                      ELSE "Failed to send email"]

\* A SendEmailAdapterReturn that throws on a failed send before logging it.
SendEmailAdapterReturn_ThrowBeforeLog(outcome) ==
  /\ send.pc = "awaitAdapter"
  /\ outcome \in AdapterOutcomes(send.adapter, sendCount)
  /\ send' =
       IF outcome.kind = "raise" \/ ~outcome.success
       THEN SendDone(ApiError("INTERNAL_SERVER_ERROR",
                              IF outcome.error # None THEN outcome.error
                              ELSE "Failed to send email",
                              EMAIL_ERROR_CODES.SEND_FAILED))
       ELSE [send EXCEPT !.pc = "awaitCreate", !.sendResult = outcome,
                         !.data = LogDataAfterSend(send.data, outcome),
                         !.calls = Append(send.calls, "create")]
  /\ UNCHANGED <<others, options, store, now, wh, sendCount, whCount>>

\* adapter.sendEmail settles: the handler resumes and either lands in its
\* catch block (the call raised) or fills the log data and calls create.
SendEmailAdapterReturn(outcome) ==
  /\ send.pc = "awaitAdapter"
  /\ outcome \in AdapterOutcomes(send.adapter, sendCount)
  /\ send' =
       IF outcome.kind = "raise"
       THEN SendDone(ApiError("INTERNAL_SERVER_ERROR", outcome.error,
                              EMAIL_ERROR_CODES.SEND_FAILED))
       ELSE [send EXCEPT !.pc = "awaitCreate", !.sendResult = outcome,
                         !.data = LogDataAfterSend(send.data, outcome),
                         !.calls = Append(send.calls, "create")]
  /\ UNCHANGED <<others, options, store, now, wh, sendCount, whCount>>

\* The persistence adapter's create: the row gets the store's own id.
StoreCreate(data) ==
  Append(store, [data EXCEPT !.id = <<"db", Len(store) + 1>>,
                             !.createdAt = now, !.updatedAt = now])

SendEmailCreated ==
  /\ send.pc = "awaitCreate"
  /\ store' = StoreCreate(send.data)
  /\ send' = [send EXCEPT !.pc = "created"]
  /\ UNCHANGED <<others, options, now, wh, sendCount, whCount>>

\* The create call rejects: the catch block wraps the store's error.
SendEmailCreateRaise ==
  /\ send.pc = "awaitCreate"
  /\ send' = SendDone(ApiError("INTERNAL_SERVER_ERROR", "store error",
                               EMAIL_ERROR_CODES.SEND_FAILED))
  /\ UNCHANGED <<others, options, store, now, wh, sendCount, whCount>>

\* After the create: "If send failed, throw error after logging", else return.
SendEmailFinish ==
  /\ send.pc = "created"
  /\ send' =
       SendDone(IF ~send.sendResult.success
                THEN ApiError("INTERNAL_SERVER_ERROR",
                              IF send.sendResult.error # None
                              THEN send.sendResult.error
                              ELSE "Failed to send email",
                              EMAIL_ERROR_CODES.SEND_FAILED)
                ELSE SendOk(send.emailLogId, send.sendResult.providerId))
  /\ UNCHANGED <<others, options, store, now, wh, sendCount, whCount>>

\* ---------------------------------------------------------- webhook handler
\* verifyWebhookSignature: TRUE when the svix module cannot be loaded, FALSE
\* when one of the three svix headers is missing, otherwise whether
\* wh.verify accepts the signature (genuine: it was made with the secret).
verifyWebhookSignature(headers, genuine) ==
  IF ~options.svixInstalled THEN TRUE
  ELSE IF ~headers.svixId \/ ~headers.svixTimestamp \/ ~headers.svixSignature
    THEN FALSE
  ELSE genuine

\* options?.webhookSecret || process.env.RESEND_WEBHOOK_SIGNING_SECRET
WebhookSecret ==
  IF options.webhookSecret # None THEN options.webhookSecret
  ELSE options.envSecret

\* payload.data.id || payload.data.email_id
MessageId(payload) ==
  IF payload.id # NoId THEN payload.id ELSE payload.email_id

NoUpdate ==
  [status |-> Unset, providerId |-> UnsetId, errorMessage |-> Unset,
   updatedAt |-> UnsetDate, sentAt |-> UnsetDate, deliveredAt |-> UnsetDate,
   openedAt |-> UnsetDate, clickedAt |-> UnsetDate, bouncedAt |-> UnsetDate,
   complainedAt |-> UnsetDate, failedAt |-> UnsetDate]

\* `Bounced: ${bounce_type}` and `Complained: ${complaint_type}` over the
\* sampled subtypes.
BounceTypes == {"hard", "soft"}
ComplaintTypes == {"abuse"}

\* A bounce message that drops the vendor's subtype.
BouncedMessage_Generic(bounce_type) == "Email bounced"

BouncedMessage(bounce_type) ==
  CASE bounce_type = "hard" -> "Bounced: hard"
    [] bounce_type = "soft" -> "Bounced: soft"

ComplainedMessage(complaint_type) ==
  CASE complaint_type = "abuse" -> "Complained: abuse"

\* A parseResendWebhook that takes providerId from data.id alone.
parseResendWebhook_IdOnly(payload) ==
  LET status == webhookEventToStatus(payload.type)
      timestamp == payload.created_at
      updateData == [NoUpdate EXCEPT !.status = status,
                                     !.providerId = payload.id,
                                     !.updatedAt = timestamp]
  IN
  CASE payload.type = "email.sent" ->
         [updateData EXCEPT !.sentAt = timestamp]
    [] payload.type = "email.delivered" ->
         [updateData EXCEPT !.deliveredAt = timestamp]
    [] payload.type = "email.opened" ->
         [updateData EXCEPT !.openedAt = timestamp]
    [] payload.type = "email.clicked" ->
         [updateData EXCEPT !.clickedAt = timestamp]
    [] payload.type = "email.bounced" ->
         IF payload.bounce_type # None
         THEN [updateData EXCEPT !.bouncedAt = timestamp,
                                 !.errorMessage =
                                   BouncedMessage(payload.bounce_type)]
         ELSE [updateData EXCEPT !.bouncedAt = timestamp]
    [] payload.type = "email.complained" ->
         IF payload.complaint_type # None
         THEN [updateData EXCEPT !.complainedAt = timestamp,
                                 !.errorMessage =
                                   ComplainedMessage(payload.complaint_type)]
         ELSE [updateData EXCEPT !.complainedAt = timestamp]
    [] payload.type = "email.failed" ->
         [updateData EXCEPT !.failedAt = timestamp,
                            !.errorMessage = "Email delivery failed"]
    [] OTHER -> updateData

\* parseResendWebhook: the partial row handed to the store's update.
parseResendWebhook(payload) ==
  LET status == webhookEventToStatus(payload.type)
      timestamp == payload.created_at
      updateData == [NoUpdate EXCEPT !.status = status,
                                     !.providerId = MessageId(payload),
                                     !.updatedAt = timestamp]
  IN
  CASE payload.type = "email.sent" ->
         [updateData EXCEPT !.sentAt = timestamp]
    [] payload.type = "email.delivered" ->
         [updateData EXCEPT !.deliveredAt = timestamp]
    [] payload.type = "email.opened" ->
         [updateData EXCEPT !.openedAt = timestamp]
    [] payload.type = "email.clicked" ->
         [updateData EXCEPT !.clickedAt = timestamp]
    [] payload.type = "email.bounced" ->
         IF payload.bounce_type # None
         THEN [updateData EXCEPT !.bouncedAt = timestamp,
                                 !.errorMessage =
                                   BouncedMessage(payload.bounce_type)]
         ELSE [updateData EXCEPT !.bouncedAt = timestamp]
    [] payload.type = "email.complained" ->
         IF payload.complaint_type # None
         THEN [updateData EXCEPT !.complainedAt = timestamp,
                                 !.errorMessage =
                                   ComplainedMessage(payload.complaint_type)]
         ELSE [updateData EXCEPT !.complainedAt = timestamp]
    [] payload.type = "email.failed" ->
         [updateData EXCEPT !.failedAt = timestamp,
                            !.errorMessage = "Email delivery failed"]
    [] OTHER -> updateData

\* An update that replaces the row's event fields instead of merging: a
\* field the update data does not carry is cleared.
ApplyUpdate_Replace(row, u) ==
  [row EXCEPT
     !.status = IF u.status # Unset THEN u.status ELSE @,
     !.providerId = IF u.providerId # UnsetId THEN u.providerId ELSE @,
     !.errorMessage = IF u.errorMessage # Unset THEN u.errorMessage ELSE None,
     !.updatedAt = IF u.updatedAt # UnsetDate THEN u.updatedAt ELSE @,
     !.sentAt = IF u.sentAt # UnsetDate THEN u.sentAt ELSE NoDate,
     !.deliveredAt = IF u.deliveredAt # UnsetDate THEN u.deliveredAt ELSE NoDate,
     !.openedAt = IF u.openedAt # UnsetDate THEN u.openedAt ELSE NoDate,
     !.clickedAt = IF u.clickedAt # UnsetDate THEN u.clickedAt ELSE NoDate,
     !.bouncedAt = IF u.bouncedAt # UnsetDate THEN u.bouncedAt ELSE NoDate,
     !.complainedAt = IF u.complainedAt # UnsetDate THEN u.complainedAt ELSE NoDate,
     !.failedAt = IF u.failedAt # UnsetDate THEN u.failedAt ELSE NoDate]

\* The row after the store's update merged updateData into it.
ApplyUpdate(row, u) ==
  [row EXCEPT
     !.status = IF u.status # Unset THEN u.status ELSE @,
     !.providerId = IF u.providerId # UnsetId THEN u.providerId ELSE @,
     !.errorMessage = IF u.errorMessage # Unset THEN u.errorMessage ELSE @,
     !.updatedAt = IF u.updatedAt # UnsetDate THEN u.updatedAt ELSE @,
     !.sentAt = IF u.sentAt # UnsetDate THEN u.sentAt ELSE @,
     !.deliveredAt = IF u.deliveredAt # UnsetDate THEN u.deliveredAt ELSE @,
     !.openedAt = IF u.openedAt # UnsetDate THEN u.openedAt ELSE @,
     !.clickedAt = IF u.clickedAt # UnsetDate THEN u.clickedAt ELSE @,
     !.bouncedAt = IF u.bouncedAt # UnsetDate THEN u.bouncedAt ELSE @,
     !.complainedAt = IF u.complainedAt # UnsetDate THEN u.complainedAt ELSE @,
     !.failedAt = IF u.failedAt # UnsetDate THEN u.failedAt ELSE @]

\* An update that bumps updatedAt by one instead of setting it.
UpdateRows_Bump(st, id, u) ==
  [i \in 1..Len(st) |->
     IF st[i].id = id
     THEN [ApplyUpdate(st[i], u) EXCEPT !.updatedAt = st[i].updatedAt + 1]
     ELSE st[i]]

\* An update whose where clause is ignored.
UpdateRows_AllRows(st, id, u) ==
  [i \in 1..Len(st) |-> ApplyUpdate(st[i], u)]

\* An update keyed by the event's providerId instead of the row's id.
UpdateRows_ByProviderId(st, id, u) ==
  [i \in 1..Len(st) |->
     IF st[i].providerId = u.providerId THEN ApplyUpdate(st[i], u)
     ELSE st[i]]

\* adapter.update({where: id = id, update: u}) on the rows st
UpdateRows(st, id, u) ==
  [i \in 1..Len(st) |->
     IF st[i].id = id THEN ApplyUpdate(st[i], u) ELSE st[i]]

StoreUpdate(id, u) == UpdateRows(store, id, u)

\* Indexes of the rows of st that adapter.findOne({where: providerId =
\* messageId}) may return.
FindRows(st, messageId) ==
  {i \in 1..Len(st) : st[i].providerId = messageId}

FindByProviderId(messageId) == FindRows(store, messageId)

\* The stores the handler can leave behind when it handles payload on the
\* rows st and the store does not fail: st itself when findOne finds no
\* row, else st with the found row updated.
HandleOnce(st, payload) ==
  IF FindRows(st, MessageId(payload)) = {} THEN {st}
  ELSE {UpdateRows(st, st[i].id, parseResendWebhook(payload)) :
          i \in FindRows(st, MessageId(payload))}

NoPayload ==
  [type |-> None, created_at |-> NoDate, hasData |-> FALSE, id |-> NoId,
   email_id |-> NoId, bounce_type |-> None, complaint_type |-> None]

\* What the caller of /email/webhook observes.
NoWhResult ==
  [kind |-> "none", status |-> None, code |-> None, message |-> None,
   emailId |-> NoId, messageId |-> NoId, eventStatus |-> None]

WhError(status, message, code) ==
  [NoWhResult EXCEPT !.kind = "error", !.status = status,
                     !.message = message, !.code = code]

IdleWh ==
  [pc |-> "idle", payload |-> NoPayload, messageId |-> NoId,
   emailLog |-> EmptyLogData, updateData |-> NoUpdate,
   verified |-> FALSE,
   result |-> NoWhResult, calls |-> <<>>]

\* "Verify webhook signature if secret is configured": whether the handler
\* calls verifyWebhookSignature, and whether it then throws UNAUTHORIZED.
SignatureChecked(req) ==
  WebhookSecret # None /\ req.headers.svixSignature

\* A signature gate that logs an invalid signature without throwing.
SignatureRejected_LogOnly(req) == FALSE

SignatureRejected(req) ==
  SignatureChecked(req) /\ ~verifyWebhookSignature(req.headers, req.genuine)

\* Whether svix's wh.verify ran on the request and accepted its signature.
SignatureVerified(req) ==
  /\ SignatureChecked(req)
  /\ options.svixInstalled
  /\ verifyWebhookSignature(req.headers, req.genuine)

\* The handler up to its await of adapter.findOne.  req carries the raw
\* request: hasBody, jsonValid, payload, headers and whether the signature
\* is genuine.
WebhookPrepare(req) ==
  LET seen == [IdleWh EXCEPT !.verified = SignatureVerified(req)]
      fail(r) == [IdleWh EXCEPT !.pc = "done", !.result = r]
  IN
  IF ~req.hasBody
    THEN fail(WhError("BAD_REQUEST", "No request body provided", None))
  ELSE IF SignatureRejected(req)
    THEN fail(WhError("UNAUTHORIZED", "Invalid webhook signature", None))
  ELSE IF ~req.jsonValid
    THEN fail(WhError("BAD_REQUEST", "Invalid JSON payload", None))
  ELSE IF ~req.payload.hasData
    THEN fail(WhError("INTERNAL_SERVER_ERROR",
                      "Cannot read properties of undefined",
                      EMAIL_ERROR_CODES.INVALID_WEBHOOK_PAYLOAD))
  ELSE IF MessageId(req.payload) = NoId
    THEN fail(WhError("BAD_REQUEST",
                      "No message ID found in webhook payload", None))
  ELSE [seen EXCEPT !.pc = "awaitFind", !.payload = req.payload,
                    !.messageId = MessageId(req.payload),
                    !.calls = <<"findOne">>]

\* The handler has returned or raised.
WebhookDone(r) == [IdleWh EXCEPT !.pc = "done", !.result = r,
                                 !.calls = wh.calls]

WebhookCall(req) ==
  /\ wh.pc \in {"idle", "done"}
  /\ wh' = WebhookPrepare(req)
  /\ whCount' = whCount + 1
  /\ UNCHANGED <<others, options, store, now, send, sendCount>>

\* A not-found branch that throws NOT_FOUND instead of acknowledging.
WebhookNotFound_Throw ==
  /\ wh.pc = "awaitFind"
  /\ FindByProviderId(wh.messageId) = {}
  /\ wh' = WebhookDone(WhError("NOT_FOUND", "Email log not found", None))
  /\ UNCHANGED <<others, options, store, now, send, sendCount, whCount>>

\* findOne resolves with no row: the webhook is acknowledged.
WebhookNotFound ==
  /\ wh.pc = "awaitFind"
  /\ FindByProviderId(wh.messageId) = {}
  /\ wh' = WebhookDone(
              [NoWhResult EXCEPT
                 !.kind = "ok", !.status = "OK",
                 !.message =
                   "Webhook received but no matching email log found",
                 !.messageId = wh.messageId,
                 !.eventStatus = wh.payload.type])
  /\ UNCHANGED <<others, options, store, now, send, sendCount, whCount>>

\* findOne resolves with a row: the handler parses the payload and calls
\* update keyed by the row's id.
WebhookFound(i) ==
  /\ wh.pc = "awaitFind"
  /\ i \in FindByProviderId(wh.messageId)
  /\ wh' = [wh EXCEPT !.pc = "awaitUpdate",
                      !.emailLog = store[i],
                      !.updateData = parseResendWebhook(wh.payload),
                      !.calls = Append(wh.calls, "update")]
  /\ UNCHANGED <<others, options, store, now, send, sendCount, whCount>>

\* The update resolves and the handler returns its success response.
WebhookUpdated ==
  /\ wh.pc = "awaitUpdate"
  /\ store' = StoreUpdate(wh.emailLog.id, wh.updateData)
  /\ wh' = WebhookDone(
              [NoWhResult EXCEPT
                 !.kind = "ok", !.status = "OK",
                 !.message = "Email status updated successfully",
                 !.emailId = wh.emailLog.id,
                 !.messageId = wh.payload.id,
                 !.eventStatus = wh.updateData.status])
  /\ UNCHANGED <<others, options, now, send, sendCount, whCount>>

\* findOne or update rejects: the catch block wraps the store's error.
WebhookStoreRaise ==
  /\ wh.pc \in {"awaitFind", "awaitUpdate"}
  /\ wh' = WebhookDone(WhError("INTERNAL_SERVER_ERROR", "store error",
                               EMAIL_ERROR_CODES.INVALID_WEBHOOK_PAYLOAD))
  /\ UNCHANGED <<others, options, store, now, send, sendCount, whCount>>

\* ------------------------------------------------------------- request sets
Body(to, cc, bcc, from, html, text, provider) ==
  [to |-> to, cc |-> cc, bcc |-> bcc, from |-> from, html |-> html,
   text |-> text, provider |-> provider]

\* Bodies of /email/send and /email/send-system as the handler receives
\* them (the endpoint's zod body schema, a library in front of the handler,
\* is not modelled): a plain one, one with
\* several recipients and every optional field, one with no recipient, one
\* per malformed address field and one with no content.
SendBodies ==
  {Body(b[1], b[2], b[3], b[4], b[5], b[6], p) :
     b \in {<<<<A1>>, AbsentList, AbsentList, Absent, Html, Absent>>,
            <<<<A1, A2>>, <<A2>>, <<A1>>, A1, Html, Text>>,
            <<<<>>, AbsentList, AbsentList, Absent, Absent, Text>>,
            <<<<A1, Bad>>, AbsentList, AbsentList, A1, Html, Absent>>,
            <<<<A1>>, <<Bad>>, AbsentList, A1, Html, Absent>>,
            <<<<A1>>, AbsentList, <<A2, Bad>>, A1, Html, Absent>>,
            <<<<A1>>, AbsentList, AbsentList, A1, Absent, Absent>>},
     p \in {None} \cup Providers}

Sessions == {None, "u1"}

\* The body the webhook model sends with: a plain one through the default
\* provider.
PlainBody == Body(<<A1>>, AbsentList, AbsentList, Absent, Html, Absent, None)

EventTypes ==
  {"email.sent", "email.delivered", "email.opened", "email.clicked",
   "email.bounced", "email.complained", "email.failed",
   "email.delivery_delayed", "email.scheduled"}

Payload(type, t, hasData, id, email_id, bounce_type, complaint_type) ==
  [type |-> type, created_at |-> t, hasData |-> hasData, id |-> id,
   email_id |-> email_id, bounce_type |-> bounce_type,
   complaint_type |-> complaint_type]

\* A message id no send of this system was given.
ForeignId == <<"msg", 0>>

\* Well-formed payloads: every event type for the first message, the
\* sent / delivered / failed ones at every timestamp, with the bounce /
\* complaint subtype present and absent; a delivery event for every other
\* message and for a foreign one; and events that carry the id under
\* email_id only.
Payloads ==
  {Payload(type, 1, TRUE, MessageIdOf(1), NoId, None, None) :
     type \in EventTypes}
  \cup {Payload(type, t, TRUE, MessageIdOf(1), NoId, None, None) :
          type \in {"email.sent", "email.delivered", "email.failed"},
          t \in 2..MaxTime}
  \cup {Payload("email.bounced", 1, TRUE, MessageIdOf(1), NoId, bt, None) :
          bt \in BounceTypes}
  \cup {Payload("email.complained", 1, TRUE, MessageIdOf(1), NoId, None, ct) :
          ct \in ComplaintTypes}
  \cup {Payload("email.delivered", 1, TRUE, m, NoId, None, None) :
          m \in {MessageIdOf(n) : n \in 2..MaxLogged} \cup {ForeignId}}
  \cup {Payload("email.opened", 1, TRUE, NoId, MessageIdOf(1), None, None),
        Payload("email.clicked", 1, TRUE, ForeignId, MessageIdOf(1), None,
                None)}

Headers(id, ts, sig) ==
  [svixId |-> id, svixTimestamp |-> ts, svixSignature |-> sig]

WebhookRequest(hasBody, jsonValid, payload, headers, genuine) ==
  [hasBody |-> hasBody, jsonValid |-> jsonValid, payload |-> payload,
   headers |-> headers, genuine |-> genuine]

\* Requests to /email/webhook: every well-formed payload unsigned, signed
\* genuinely, signed with a forged signature and signed with a header
\* missing; and the malformed requests (no body, bad JSON, no data object,
\* no message id).
WebhookRequests ==
  {WebhookRequest(TRUE, TRUE, q, h[1], h[2]) :
     q \in Payloads,
     h \in {<<Headers(FALSE, FALSE, FALSE), FALSE>>,
            <<Headers(TRUE, TRUE, TRUE), TRUE>>,
            <<Headers(TRUE, TRUE, TRUE), FALSE>>,
            <<Headers(FALSE, TRUE, TRUE), TRUE>>}}
  \cup
  {WebhookRequest(FALSE, FALSE, NoPayload, Headers(FALSE, FALSE, FALSE), FALSE),
   WebhookRequest(TRUE, FALSE, NoPayload, Headers(FALSE, FALSE, FALSE), FALSE),
   WebhookRequest(TRUE, TRUE, NoPayload, Headers(FALSE, FALSE, FALSE), FALSE),
   WebhookRequest(TRUE, TRUE,
                  Payload("email.sent", 1, TRUE, NoId, NoId, None, None),
                  Headers(FALSE, FALSE, FALSE), FALSE)}

\* ------------------------------------------- the adapters' sendBulkEmails
\* ResendEmailAdapter.sendBulkEmails and SendGridEmailAdapter.sendBulkEmails
\* (the same code): batches of batchSize requests, each batch mapped to
\* sendEmail promises and joined with Promise.allSettled.
batchSize == 10

\* What sendEmail does with a request: "ok" resolves with success, "fail"
\* resolves with {success: false} (Resend), "reject" rejects (SendGrid's
\* validateEmailData or transport throwing inside the async function).
Behaviours == {"ok", "fail", "reject"}

\* The settled promise of this.sendEmail(emails[k]).
SendEmailOutcome(emails, k) ==
  CASE emails[k] = "ok" -> Outcome("return", TRUE, MessageIdOf(k), None)
    [] emails[k] = "fail" -> Outcome("return", FALSE, NoId, "x")
    [] emails[k] = "reject" -> Outcome("raise", FALSE, NoId, "boom")

\* The body of `for (const result of batchResults)`: the fulfilled value,
\* or {success: false, error: reason.message}.
PushResult(o) ==
  IF o.kind = "return" THEN o ELSE Outcome("return", FALSE, NoId, o.error)

\* batchResults for the requests lo..hi that lists the fulfilled promises
\* before the rejected ones.
BatchResults_FulfilledFirst(emails, lo, hi) ==
  LET all == [k \in 1..(hi - lo + 1) |-> SendEmailOutcome(emails, lo + k - 1)]
      ful == SelectSeq(all, LAMBDA o : o.kind = "return")
      rej == SelectSeq(all, LAMBDA o : o.kind = "raise")
  IN [k \in 1..(hi - lo + 1) |-> PushResult((ful \o rej)[k])]

\* What the loop over batchResults pushes for the requests lo..hi: one
\* outcome per promise, in the order of the batch.
BatchResults(emails, lo, hi) ==
  [k \in 1..(hi - lo + 1) |-> PushResult(SendEmailOutcome(emails, lo + k - 1))]

IdleBulk ==
  [pc |-> "idle", emails |-> <<>>, state |-> <<>>, i |-> 0,
   results |-> <<>>, dispatched |-> <<>>]

\* emails.slice(i, i + batchSize), as positions lo..hi of emails
BatchLo == bulk.i + 1
BatchHi ==
  IF bulk.i + batchSize < Len(bulk.emails) THEN bulk.i + batchSize
  ELSE Len(bulk.emails)

InFlight == {k \in 1..Len(bulk.state) : bulk.state[k] = "inflight"}

\* A join that does not wait for the batch.
BatchSettled_NoAwait == TRUE

\* await Promise.allSettled(batchPromises) resumes
BatchSettled == \A k \in BatchLo..BatchHi : bulk.state[k] = "settled"

\* batch.map((email) => this.sendEmail(email)): the batch is dispatched.
BulkDispatch ==
  /\ bulk.pc = "loop"
  /\ bulk.i < Len(bulk.emails)
  /\ bulk' = [bulk EXCEPT
       !.pc = "await",
       !.state = [k \in 1..Len(bulk.state) |->
                    IF k \in BatchLo..BatchHi THEN "inflight"
                    ELSE bulk.state[k]],
       !.dispatched = [k \in 1..Len(bulk.dispatched) |->
                         IF k \in BatchLo..BatchHi
                         THEN bulk.dispatched[k] + 1
                         ELSE bulk.dispatched[k]]]
  /\ UNCHANGED <<pipeline, bh, report, call, query, deliveries>>

\* One sendEmail promise settles (fulfilled or rejected), in any order.
BulkSettle(k) ==
  /\ k \in InFlight
  /\ bulk' = [bulk EXCEPT !.state[k] = "settled"]
  /\ UNCHANGED <<pipeline, bh, report, call, query, deliveries>>

\* A join with Promise.all: the first rejection rejects the whole call.
BulkJoin_PromiseAll ==
  /\ bulk.pc = "await"
  /\ BatchSettled
  /\ bulk' =
       IF \E k \in BatchLo..BatchHi : bulk.emails[k] = "reject"
       THEN [bulk EXCEPT !.pc = "raised"]
       ELSE [bulk EXCEPT
               !.pc = "loop",
               !.results = bulk.results
                             \o BatchResults(bulk.emails, BatchLo, BatchHi),
               !.i = bulk.i + batchSize]
  /\ UNCHANGED <<pipeline, bh, report, call, query, deliveries>>

\* allSettled has resolved: the outcomes are pushed and the loop goes on.
BulkJoin ==
  /\ bulk.pc = "await"
  /\ BatchSettled
  /\ bulk' = [bulk EXCEPT
       !.pc = "loop",
       !.results = bulk.results
                     \o BatchResults(bulk.emails, BatchLo, BatchHi),
       !.i = bulk.i + batchSize]
  /\ UNCHANGED <<pipeline, bh, report, call, query, deliveries>>

\* return results
BulkReturn ==
  /\ bulk.pc = "loop"
  /\ bulk.i >= Len(bulk.emails)
  /\ bulk' = [bulk EXCEPT !.pc = "done"]
  /\ UNCHANGED <<pipeline, bh, report, call, query, deliveries>>

\* Request lists: n requests that all succeed, that reject at the (0-based)
\* indices 5 and 17, that mix a rejection with failures, and that all
\* reject.
BulkInputs ==
  UNION {
    {[k \in 1..n |-> "ok"],
     [k \in 1..n |-> IF k \in {6, 18} THEN "reject" ELSE "ok"],
     [k \in 1..n |-> CASE k = 1 -> "reject"
                       [] k \in {2, 11} -> "fail"
                       [] OTHER -> "ok"],
     [k \in 1..n |-> "reject"]} : n \in 0..MaxEmails}

\* ------------------------------------------------------- bulk send handler
\* The handler of /email/send-bulk.  An element of ctx.body.emails carries
\* to (the handler wraps a single address into a list), from, html, text,
\* cc and bcc.
BulkElement(to, from, html, text, cc, bcc) ==
  [to |-> to, from |-> from, html |-> html, text |-> text, cc |-> cc,
   bcc |-> bcc]

\* What the caller of /email/send-bulk observes.
NoBulkResult ==
  [kind |-> "none", status |-> None, code |-> None, message |-> None,
   total |-> 0, successful |-> 0, failed |-> 0, results |-> <<>>]

BulkError(status, message, code) ==
  [NoBulkResult EXCEPT !.kind = "error", !.status = status,
                       !.message = message, !.code = code]

IdleBh ==
  [pc |-> "idle", emails |-> <<>>, adapter |-> None, userId |-> None,
   sendResults |-> <<>>, k |-> 0, result |-> NoBulkResult, calls |-> <<>>,
   base |-> 0, dispatched |-> 0]

BULK_SEND_FAILED == "Bulk email send operation failed"

\* The handler has returned or raised: the caller sees result; calls lists
\* the collaborator calls made, dispatched counts the requests the adapter
\* handed to sendEmail, sendResults are the outcomes it reported and base
\* is the size of the store at the call.
BulkDone(r) ==
  [IdleBh EXCEPT !.pc = "done", !.result = r, !.calls = bh.calls,
                 !.base = bh.base, !.dispatched = bh.dispatched,
                 !.sendResults = bh.sendResults]

\* The handler up to its await of adapter.sendBulkEmails.
BulkSendPrepare(body, session) ==
  LET adapter == ResolveAdapter(body.provider)
      fail(r) == [IdleBh EXCEPT !.pc = "done", !.result = r,
                                !.base = Len(store)]
  IN
  IF session = None
    THEN fail(BulkError("UNAUTHORIZED", None, None))
  ELSE IF adapter = None
    THEN fail(BulkError("INTERNAL_SERVER_ERROR", "Email adapter not found",
                        EMAIL_ERROR_CODES.ADAPTER_NOT_FOUND))
  ELSE [IdleBh EXCEPT
          !.pc = "awaitBulk", !.adapter = adapter, !.userId = session,
          !.emails = [k \in 1..Len(body.emails) |->
                        [body.emails[k] EXCEPT
                           !.from = OrElse(OrElse(body.emails[k].from,
                                                  options.fromAddress),
                                           <<>>)]],
          !.calls = <<"sendBulkEmails">>,
          !.base = Len(store)]

BulkSendCall(body, session) ==
  /\ bh.pc \in {"idle", "done"}
  /\ bh' = BulkSendPrepare(body, session)
  /\ UNCHANGED <<options, store, now, send, wh, sendCount, whCount, bulk,
               report, call, query, deliveries>>

\* What adapter.sendBulkEmails can settle with for n requests, the vendor
\* having been handed m messages before: the Resend and SendGrid adapters
\* return one outcome per request; the placeholder adapters raise.
BulkOutcomes(name, n, m) ==
  LET perRequest ==
        {r \in [1..n -> {PushResult(o) :
                           o \in UNION {AdapterOutcomes(name, m + j) :
                                          j \in 1..n}}] :
           \A j \in 1..n : r[j] \in {PushResult(o) :
                                      o \in AdapterOutcomes(name, m + j)}}
  IN
  CASE name = "resend" -> {[kind |-> "return", results |-> r] : r \in perRequest}
    [] name = "sendgrid" ->
         {[kind |-> "return", results |-> r] : r \in perRequest}
         \cup {[kind |-> "raise",
                results |-> "SendGrid bulk adapter not yet implemented"]}
    [] OTHER -> {[kind |-> "raise",
                  results |-> "Bravo bulk adapter not yet implemented"]}

\* adapter.sendBulkEmails settles.
BulkSendAdapterReturn(outcome) ==
  /\ bh.pc = "awaitBulk"
  /\ outcome \in BulkOutcomes(bh.adapter, Len(bh.emails), sendCount)
  /\ IF outcome.kind = "raise"
     THEN /\ bh' = BulkDone(BulkError("INTERNAL_SERVER_ERROR", outcome.results,
                                      BULK_SEND_FAILED))
          /\ UNCHANGED sendCount
     ELSE /\ bh' = [bh EXCEPT !.pc = "logging", !.sendResults = outcome.results,
                              !.k = 1, !.dispatched = Len(bh.emails)]
          /\ sendCount' = sendCount + Len(bh.emails)
  /\ UNCHANGED <<options, store, now, send, wh, whCount, bulk, report, call,
               query, deliveries>>

\* Whether determineContentType or validateEmailArray throws while the
\* log data of the k-th element is built.
BulkLogThrows(k) ==
  LET email == bh.emails[k]
  IN \/ determineContentType(email.html, email.text) = "throw"
     \/ ~validateEmailArray(email.to).ok
     \/ (email.cc # AbsentList /\ ~validateEmailArray(email.cc).ok)
     \/ (email.bcc # AbsentList /\ ~validateEmailArray(email.bcc).ok)

\* emailLogData of the k-th element.
BulkLogData(k) ==
  LET email == bh.emails[k]
      result == bh.sendResults[k]
      contentType == determineContentType(email.html, email.text)
      toV == validateEmailArray(email.to)
      ccV == IF email.cc # AbsentList THEN validateEmailArray(email.cc)
             ELSE [ok |-> TRUE, value |-> AbsentList, invalid |-> <<>>]
      bccV == IF email.bcc # AbsentList THEN validateEmailArray(email.bcc)
              ELSE [ok |-> TRUE, value |-> AbsentList, invalid |-> <<>>]
  IN
       [NewLogData(OrElse(OrElse(email.from, options.fromAddress), <<>>),
                   OrElse(arrayToString(toV.value), First(toV.value)),
                   arrayToString(ccV.value), arrayToString(bccV.value),
                   contentType, bh.adapter, bh.userId)
          EXCEPT !.status = IF result.success THEN "sent" ELSE "failed",
                 !.providerId = result.providerId,
                 !.errorMessage = IF result.success THEN None
                                  ELSE result.error,
                 !.sentAt = IF result.success THEN now ELSE NoDate,
                 !.failedAt = IF result.success THEN NoDate ELSE now]

\* One turn of the logging loop: the entry of element k is created.
BulkLogElement ==
  /\ bh.pc = "logging"
  /\ bh.k <= Len(bh.emails)
  /\ ~BulkLogThrows(bh.k)
  /\ store' = StoreCreate(BulkLogData(bh.k))
  /\ bh' = [bh EXCEPT !.k = bh.k + 1, !.calls = Append(bh.calls, "create")]
  /\ UNCHANGED <<options, now, send, wh, sendCount, whCount, bulk, report,
               call, query, deliveries>>

\* A turn of the logging loop raises (a helper throws or the create
\* rejects): the catch block ends the call.
BulkLogRaise ==
  /\ bh.pc = "logging"
  /\ bh.k <= Len(bh.emails)
  /\ bh' = BulkDone(BulkError("INTERNAL_SERVER_ERROR",
                              IF BulkLogThrows(bh.k)
                              THEN "helper error" ELSE "store error",
                              BULK_SEND_FAILED))
  /\ UNCHANGED <<options, store, now, send, wh, sendCount, whCount, bulk,
               report, call, query, deliveries>>

Count(results, success) ==
  Cardinality({j \in 1..Len(results) : results[j].success = success})

\* A handler that fails the call when some element failed.
BulkSendFinish_FailOnAny ==
  /\ bh.pc = "logging"
  /\ bh.k > Len(bh.emails)
  /\ bh' = BulkDone(
             IF Count(bh.sendResults, FALSE) > 0
             THEN BulkError("INTERNAL_SERVER_ERROR", "some emails failed",
                            BULK_SEND_FAILED)
             ELSE [NoBulkResult EXCEPT
                     !.kind = "ok", !.status = "OK",
                     !.total = Len(bh.emails),
                     !.successful = Count(bh.sendResults, TRUE),
                     !.failed = Count(bh.sendResults, FALSE),
                     !.results = bh.sendResults])
  /\ UNCHANGED <<options, store, now, send, wh, sendCount, whCount, bulk,
               report, call, query, deliveries>>

\* The loop is over: the aggregate is returned.
BulkSendFinish ==
  /\ bh.pc = "logging"
  /\ bh.k > Len(bh.emails)
  /\ bh' = BulkDone([NoBulkResult EXCEPT
                       !.kind = "ok", !.status = "OK",
                       !.total = Len(bh.emails),
                       !.successful = Count(bh.sendResults, TRUE),
                       !.failed = Count(bh.sendResults, FALSE),
                       !.results = bh.sendResults])
  /\ UNCHANGED <<options, store, now, send, wh, sendCount, whCount, bulk,
               report, call, query, deliveries>>

\* Elements the body schema admits: a single recipient with html, several
\* recipients with every optional field, and an empty recipient list.
BulkElements ==
  {BulkElement(<<A1>>, Absent, Html, Absent, AbsentList, AbsentList),
   BulkElement(<<A1, A2>>, A1, Html, Text, <<A2>>, <<A1>>),
   BulkElement(<<>>, Absent, Absent, Text, AbsentList, AbsentList)}

BulkBodies ==
  {[emails |-> e, provider |-> p] :
     e \in UNION {[1..n -> BulkElements] : n \in 0..MaxBulkSize},
     p \in {None, "sendgrid"}}

\* --------------------------------------------------------------- statistics
RECURSIVE GCD(_, _)
GCD(a, b) == IF b = 0 THEN a ELSE GCD(b, a % b)

\* (n / d) * 100 as a fraction in lowest terms; the code computes it in
\* double precision.
Percent(n, d) ==
  LET g == GCD(n * 100, d)
  IN [num |-> (n * 100) \div g, den |-> d \div g]

Zero == [num |-> 0, den |-> 1]

\* emailLogs.filter((log) => pred(log.status)).length
RECURSIVE FilterCount(_, _)
FilterCount(emailLogs, statuses) ==
  IF emailLogs = <<>> THEN 0
  ELSE (IF Head(emailLogs).status \in statuses THEN 1 ELSE 0)
       + FilterCount(Tail(emailLogs), statuses)

\* A calculateEmailStats whose sent count leaves out the delivered entries
\* and whose bounce rate is taken over all entries.
calculateEmailStats_SentOnly(emailLogs) ==
  LET total == Len(emailLogs)
      sent == FilterCount(emailLogs, {"sent"})
      delivered == FilterCount(emailLogs, {"delivered"})
      opened == FilterCount(emailLogs, {"opened"})
      clicked == FilterCount(emailLogs, {"clicked"})
      bounced == FilterCount(emailLogs, {"bounced"})
  IN [total |-> total, sent |-> sent, delivered |-> delivered,
      opened |-> opened, clicked |-> clicked, bounced |-> bounced,
      complained |-> FilterCount(emailLogs, {"complained"}),
      failed |-> FilterCount(emailLogs, {"failed"}),
      openRate |-> IF delivered > 0 THEN Percent(opened, delivered) ELSE Zero,
      clickRate |-> IF delivered > 0 THEN Percent(clicked, delivered) ELSE Zero,
      bounceRate |-> IF total > 0 THEN Percent(bounced, total) ELSE Zero]

calculateEmailStats(emailLogs) ==
  LET total == Len(emailLogs)
      sent == FilterCount(emailLogs, {"sent", "delivered"})
      delivered == FilterCount(emailLogs, {"delivered"})
      opened == FilterCount(emailLogs, {"opened"})
      clicked == FilterCount(emailLogs, {"clicked"})
      bounced == FilterCount(emailLogs, {"bounced"})
  IN [total |-> total, sent |-> sent, delivered |-> delivered,
      opened |-> opened, clicked |-> clicked, bounced |-> bounced,
      complained |-> FilterCount(emailLogs, {"complained"}),
      failed |-> FilterCount(emailLogs, {"failed"}),
      openRate |-> IF delivered > 0 THEN Percent(opened, delivered) ELSE Zero,
      clickRate |-> IF delivered > 0 THEN Percent(clicked, delivered) ELSE Zero,
      bounceRate |-> IF sent > 0 THEN Percent(bounced, sent) ELSE Zero]

\* The entries handed to calculateEmailStats (only their status is read)
\* and what it returned for them.
NoStats ==
  [total |-> -1, sent |-> 0, delivered |-> 0, opened |-> 0, clicked |-> 0,
   bounced |-> 0, complained |-> 0, failed |-> 0, openRate |-> Zero,
   clickRate |-> Zero, bounceRate |-> Zero]

IdleReport == [emailLogs |-> <<>>, stats |-> NoStats]

\* One more entry is among those the statistics are asked for.
StatsAddLog(status) ==
  /\ report.stats = NoStats
  /\ report' = [report EXCEPT
                  !.emailLogs = Append(report.emailLogs, [status |-> status])]
  /\ UNCHANGED <<pipeline, bulk, bh, call, query, deliveries>>

StatsCompute ==
  /\ report.stats = NoStats
  /\ report' = [report EXCEPT !.stats = calculateEmailStats(report.emailLogs)]
  /\ UNCHANGED <<pipeline, bulk, bh, call, query, deliveries>>

\* ------------------------------------------------------------- helper calls
\* A call of one of the exported helpers of utils.ts: its name, its
\* arguments and, once it has run, what it returned or that it threw.
IdleCall == [op |-> None, args |-> <<>>, done |-> FALSE, result |-> None]

\* emails: string | string[] -- a value tagged with what Array.isArray
\* says of it.
OneString(s) == [isArray |-> FALSE, string |-> s, array |-> <<>>]
StringArray(a) == [isArray |-> TRUE, string |-> <<>>, array |-> a]

\* const emailArray = Array.isArray(emails) ? emails : [emails]
emailArray(emails) ==
  IF emails.isArray THEN emails.array ELSE <<emails.string>>

CallValidateEmailArray ==
  /\ call.op = "validateEmailArray"
  /\ ~call.done
  /\ call' = [call EXCEPT
                !.done = TRUE,
                !.result = validateEmailArray(emailArray(call.args[1]))]
  /\ UNCHANGED <<pipeline, bulk, bh, report, query, deliveries>>

CallDetermineContentType ==
  /\ call.op = "determineContentType"
  /\ ~call.done
  /\ call' = [call EXCEPT
                !.done = TRUE,
                !.result = determineContentType(call.args[1], call.args[2])]
  /\ UNCHANGED <<pipeline, bulk, bh, report, query, deliveries>>

\* arrayToString on an address list, then stringToArray on what it gave.
CallArrayToString ==
  /\ call.op = "arrayToString"
  /\ ~call.done
  /\ call' = [call EXCEPT
                !.done = TRUE,
                !.result =
                  [string |-> arrayToString(call.args[1]),
                   array |-> stringToArray(arrayToString(call.args[1]))]]
  /\ UNCHANGED <<pipeline, bulk, bh, report, query, deliveries>>

\* SendGridEmailAdapter.sendEmail builds the MailDataRequired it sends: the
\* html goes under content; the object has no html, text, templateId or
\* personalizations key, so each of them reads as undefined.
SendGridEmailData(email, defaultSender) ==
  [from |-> OrElse(email.from, defaultSender), to |-> email.to,
   subject |-> email.subject,
   content |-> <<[type |-> "text/html", value |-> OrElse(email.html, <<>>)]>>,
   html |-> Absent, text |-> Absent, templateId |-> Absent,
   personalizations |-> FALSE]

\* validateEmailData: the message of the Error it throws, or None.
validateEmailData(emailData) ==
  IF ~Truthy(emailData.from) THEN "Sender is required"
  ELSE IF ~isValidEmail(emailData.from) THEN "Invalid sender email address"
  ELSE IF Len(emailData.to) = 0 /\ ~emailData.personalizations
    THEN "At least one recipient is required"
  ELSE IF \E k \in 1..Len(emailData.to) : ~isValidEmail(emailData.to[k])
    THEN "Invalid recipient email"
  ELSE IF /\ ~Truthy(emailData.subject)
          /\ ~Truthy(emailData.templateId)
          /\ ~emailData.personalizations
    THEN "Subject is required when not using a template"
  ELSE IF /\ ~Truthy(emailData.html)
          /\ ~Truthy(emailData.text)
          /\ ~Truthy(emailData.templateId)
          /\ ~emailData.personalizations
    THEN "Either html, text, or templateId is required"
  ELSE None

\* SendGridEmailAdapter.sendEmail: validateEmailData throws, or
\* mailService.send is called and its message id returned.
SendGridSendEmail(email, defaultSender) ==
  LET emailData == SendGridEmailData(email, defaultSender)
      error == validateEmailData(emailData)
  IN IF error # None
     THEN [kind |-> "raise", error |-> error, sent |-> FALSE, success |-> FALSE]
     ELSE [kind |-> "return", error |-> None, sent |-> TRUE, success |-> TRUE]

CallSendGridSendEmail ==
  /\ call.op = "SendGridEmailAdapter.sendEmail"
  /\ ~call.done
  /\ call' = [call EXCEPT
                !.done = TRUE,
                !.result = SendGridSendEmail(call.args[1], call.args[2])]
  /\ UNCHANGED <<pipeline, bulk, bh, report, query, deliveries>>

\* Addresses: well-formed ones, and ones with no top-level part, with
\* whitespace, with two "@", with nothing after the dot, with nothing
\* between "@" and the dot, and the empty string.
A3 == <<"a", "@", ".", "c", ".", "d">>
NoTld == <<"a", "@", "b", ".">>
Spaced == <<"a", " ", "@", "b", ".", "c">>
TwoAts == <<"a", "@", "b", "@", "c", ".", "d">>
NoDomain == <<"a", "@", ".", "c">>
Addresses == {A1, A2, A3, Bad, NoTld, Spaced, TwoAts, NoDomain, <<>>}

EmailInputs ==
  {OneString(s) : s \in Addresses}
  \cup {StringArray(a) :
          a \in UNION {[1..n -> Addresses] : n \in 0..MaxAddresses}}

Contents == {Absent, <<>>, Html, Text}

\* Requests handed to an adapter's sendEmail: with and without a sender, a
\* recipient, a subject, html and text, and with malformed addresses.
EmailRequests ==
  {[from |-> f, to |-> t, subject |-> sub, html |-> h, text |-> x] :
     f \in {A1, Absent, Bad}, t \in {<<A1>>, <<A1, A2>>, <<>>, <<Bad>>},
     sub \in {<<"s">>, <<>>}, h \in {Html, Absent}, x \in {Text, Absent}}

\* An address with a comma in its local part, which the pattern of
\* isValidEmail admits; and the lists handed to arrayToString: an absent
\* one, and every list of at most MaxAddresses addresses that pass
\* validateEmailArray.
Comma == <<"a", ",", "b", "@", "c", ".", "d">>

AddressLists ==
  {AbsentList}
  \cup {a \in UNION {[1..n -> {A1, A2, Comma}] : n \in 0..MaxAddresses} :
          validateEmailArray(a).ok}

\* ------------------------------------------------------------- EmailService
\* The convenience methods of EmailService and what each hands to fetch:
\* sendVerificationEmail goes through EmailService.sendEmail to /email/send
\* with `to` an array of {email, name}; sendWelcomeEmail and
\* sendPasswordResetEmail go through EmailService.sendSystemEmail to
\* /email/send-system with `to` the user's address as a string.  No method
\* sets a cookie or an authorization header, so the request has no session.
ServiceMethods ==
  {"sendVerificationEmail", "sendWelcomeEmail", "sendPasswordResetEmail"}

ServiceRequest(method, user) ==
  [endpoint |-> IF method = "sendVerificationEmail" THEN "send"
                ELSE "send-system",
   toIsArray |-> method = "sendVerificationEmail",
   body |-> Body(<<user>>, AbsentList, AbsentList, Absent, Html, Absent, None)]

\* The part of the body schema of /email/send and /email/send-system that
\* the service's requests can fail: to: z.array(z.object({email, name})).
BodySchemaAccepts(request) == request.toIsArray

\* A method of the service is called: its request goes through the session
\* middleware and the body schema to the handler.
ServiceCall(method, user) ==
  LET request == ServiceRequest(method, user)
  IN
  /\ call.op = None
  /\ send.pc \in {"idle", "done"}
  /\ call' = [IdleCall EXCEPT !.op = method, !.args = <<user>>]
  /\ send' = IF BodySchemaAccepts(request)
             THEN SendEmailPrepare(request.endpoint, request.body, None)
             ELSE [IdleSend EXCEPT
                     !.pc = "done", !.endpoint = request.endpoint,
                     !.result = ApiError("BAD_REQUEST", "Invalid body", None),
                     !.base = Len(store)]
  /\ sendCount' = sendCount + 1
  /\ now' = now + 1
  /\ UNCHANGED <<options, store, wh, whCount, bulk, bh, report, query, deliveries>>

\* fetch has resolved: the method returns the response's JSON, or throws
\* an Error with the response's message when the response is not ok.
ServiceReturn ==
  /\ call.op \in ServiceMethods
  /\ ~call.done
  /\ send.pc = "done"
  /\ call' = [call EXCEPT
                !.done = TRUE,
                !.result = IF send.result.kind = "ok" THEN "return"
                           ELSE "throw"]
  /\ UNCHANGED <<pipeline, bulk, bh, report, query, deliveries>>

\* ------------------------------------------------------------ query handlers
\* What the caller of /email/logs or /email/stats observes: a response, an
\* APIError, or ("raised") an exception the handler did not catch.
NoQueryResult ==
  [kind |-> "none", status |-> None, message |-> None, emailLogs |-> <<>>,
   count |-> 0, stats |-> NoStats, userId |-> None]

\* where: the value each field must equal, None for a field not tested.
NoWhere == [userId |-> None, status |-> None, provider |-> None]

IdleQuery ==
  [pc |-> "idle", op |-> None, where |-> NoWhere, limit |-> 0, offset |-> 0,
   result |-> NoQueryResult]

DefaultLimit == 50

\* The query string of a request; None is a parameter left out, NoNumber
\* a numeric one left out.
NoNumber == -1

Query(userId, status, provider, limit, offset) ==
  [userId |-> userId, status |-> status, provider |-> provider,
   limit |-> limit, offset |-> offset]

\* The handler of /email/logs up to its await of adapter.findMany.
GetEmailLogsPrepare(q, session) ==
  IF session = None
  THEN [IdleQuery EXCEPT
          !.pc = "done", !.op = "getEmailLogs",
          !.result = [NoQueryResult EXCEPT !.kind = "error",
                                           !.status = "UNAUTHORIZED"]]
  ELSE [IdleQuery EXCEPT
          !.pc = "awaitFind", !.op = "getEmailLogs",
          !.where = [userId |-> IF q.userId # None THEN q.userId ELSE session,
                     status |-> q.status, provider |-> q.provider],
          !.limit = IF q.limit # NoNumber /\ q.limit # 0 THEN q.limit
                    ELSE DefaultLimit,
          !.offset = IF q.offset # NoNumber THEN q.offset ELSE 0]

\* The handler of /email/stats up to its await of adapter.findMany.
GetEmailStatsPrepare(q, session) ==
  IF session = None
  THEN [IdleQuery EXCEPT
          !.pc = "done", !.op = "getEmailStats",
          !.result = [NoQueryResult EXCEPT !.kind = "error",
                                           !.status = "UNAUTHORIZED"]]
  ELSE [IdleQuery EXCEPT
          !.pc = "awaitFind", !.op = "getEmailStats",
          !.where = [userId |-> IF q.userId # None THEN q.userId ELSE session,
                     status |-> None, provider |-> q.provider]]

QueryCall(op, q, session) ==
  /\ query.pc \in {"idle", "done"}
  /\ query' = IF op = "getEmailLogs" THEN GetEmailLogsPrepare(q, session)
              ELSE GetEmailStatsPrepare(q, session)
  /\ UNCHANGED <<pipeline, bulk, bh, report, call, deliveries>>

\* A findMany whose where clause leaves the userId condition out.
Matches_AnyUser(row, where) ==
  /\ where.status # None => row.status = where.status
  /\ where.provider # None => row.provider = where.provider

\* adapter.findMany: the rows that meet every condition of where ...
Matches(row, where) ==
  /\ row.userId = where.userId
  /\ where.status # None => row.status = where.status
  /\ where.provider # None => row.provider = where.provider

\* ... sorted by createdAt, latest first ...
RECURSIVE InsertDesc(_, _)
InsertDesc(row, rows) ==
  IF rows = <<>> THEN <<row>>
  ELSE IF row.createdAt >= Head(rows).createdAt THEN <<row>> \o rows
  ELSE <<Head(rows)>> \o InsertDesc(row, Tail(rows))

RECURSIVE SortDesc(_)
SortDesc(rows) ==
  IF rows = <<>> THEN <<>> ELSE InsertDesc(Head(rows), SortDesc(Tail(rows)))

\* ... and cut to limit rows from offset on.
Page(rows, limit, offset) ==
  SubSeq(rows, offset + 1,
         IF offset + limit < Len(rows) THEN offset + limit ELSE Len(rows))

FindMany(where) == SelectSeq(store, LAMBDA row : Matches(row, where))

\* findMany resolves: the handler returns its response.
QueryFound ==
  /\ query.pc = "awaitFind"
  /\ LET rows == FindMany(query.where)
         emailLogs == Page(SortDesc(rows), query.limit, query.offset)
     IN query' =
          [query EXCEPT
             !.pc = "done",
             !.result =
               IF query.op = "getEmailLogs"
               THEN [NoQueryResult EXCEPT
                       !.kind = "ok", !.status = "OK",
                       !.emailLogs = emailLogs, !.count = Len(emailLogs),
                       !.userId = query.where.userId]
               ELSE [NoQueryResult EXCEPT
                       !.kind = "ok", !.status = "OK",
                       !.stats = calculateEmailStats(rows),
                       !.userId = query.where.userId]]
  /\ UNCHANGED <<pipeline, bulk, bh, report, call, deliveries>>

\* findMany rejects: neither handler has a try block, so the store's
\* exception leaves the handler as it is.
QueryFindRaise ==
  /\ query.pc = "awaitFind"
  /\ query' = [query EXCEPT
                 !.pc = "done",
                 !.result = [NoQueryResult EXCEPT !.kind = "raised",
                                                  !.message = "store error"]]
  /\ UNCHANGED <<pipeline, bulk, bh, report, call, deliveries>>

\* Entries that sends and webhooks leave in the store: of two users and of
\* the system, through two providers, in several statuses.
QueryRow(userId, status, provider) ==
  [NewLogData(A2, A1, Absent, Absent, "html", provider, userId)
     EXCEPT !.status = status]

QueryRows ==
  {QueryRow("u1", "sent", "resend"), QueryRow("u2", "delivered", "resend"),
   QueryRow(None, "sent", "resend"), QueryRow("u1", "failed", "sendgrid")}

\* The k-th row of a store was created at time k under the id <<"db", k>>.
QueryStores ==
  {[k \in 1..Len(rows) |-> [rows[k] EXCEPT !.id = <<"db", k>>,
                                           !.createdAt = k, !.updatedAt = k]] :
     rows \in UNION {[1..n -> QueryRows] : n \in 0..MaxRows}}

Queries ==
  {Query(u, s, p, l, o) :
     u \in {None, "u2"}, s \in {None, "sent"}, p \in {None, "resend"},
     l \in {NoNumber, 0, 1}, o \in {NoNumber, 1}}

\* ------------------------------------------------ concurrent deliveries
\* Two deliveries to /email/webhook in flight at once, each a run of the
\* handler above with its own locals, sharing the store with each other and
\* with a send.  handlers[h] is delivery h's position and locals (kept
\* after it returns); base is the store as it was when the first of the
\* deliveries arrived.
Slots == {1, 2}

IdleDeliveries == [handlers |-> [h \in Slots |-> IdleWh], base |-> <<>>]

\* No delivery is being handled, nor will be.
NoDeliveries == [handlers |-> <<>>, base |-> <<>>]

\* An unsigned request carrying payload.
UnsignedRequest(payload) ==
  WebhookRequest(TRUE, TRUE, payload, Headers(FALSE, FALSE, FALSE), FALSE)

\* Delivery h after its handler moved to the locals d.
Moved(h, d) == [deliveries EXCEPT !.handlers[h] = d]

\* Whether the vendor can have sent an event for message id m: the id is
\* not one of this run's sends (an earlier or a foreign message), or the
\* adapter has returned it to the send handler.
Issued(m) ==
  \/ m # MessageIdOf(1)
  \/ send.sendResult.success /\ send.sendResult.providerId = m
  \/ send.result.kind = "ok" /\ send.result.providerId = m

\* The handler of delivery h runs up to its await of findOne.
DeliveryCall(h, payload) ==
  /\ deliveries.handlers[h].pc = "idle"
  /\ Issued(MessageId(payload))
  /\ deliveries' =
       [handlers |-> [deliveries.handlers EXCEPT
                        ![h] = WebhookPrepare(UnsignedRequest(payload))],
        base |-> IF \A g \in Slots : deliveries.handlers[g].pc = "idle"
                 THEN store ELSE deliveries.base]
  /\ UNCHANGED <<pipeline, bulk, bh, report, call, query>>

\* findOne resolves with no row: delivery h is acknowledged.
DeliveryNotFound(h) ==
  LET d == deliveries.handlers[h] IN
  /\ d.pc = "awaitFind"
  /\ FindByProviderId(d.messageId) = {}
  /\ deliveries' =
       Moved(h, [d EXCEPT
                   !.pc = "done",
                   !.result =
                     [NoWhResult EXCEPT
                        !.kind = "ok", !.status = "OK",
                        !.message =
                          "Webhook received but no matching email log found",
                        !.messageId = d.messageId,
                        !.eventStatus = d.payload.type]])
  /\ UNCHANGED <<pipeline, bulk, bh, report, call, query>>

\* Every field of row, as update data.
WholeRow(row) ==
  [status |-> row.status, providerId |-> row.providerId,
   errorMessage |-> row.errorMessage, updatedAt |-> row.updatedAt,
   sentAt |-> row.sentAt, deliveredAt |-> row.deliveredAt,
   openedAt |-> row.openedAt, clickedAt |-> row.clickedAt,
   bouncedAt |-> row.bouncedAt, complainedAt |-> row.complainedAt,
   failedAt |-> row.failedAt]

\* A handler that writes back the whole row it read, merged with the event.
DeliveryFound_ReadModifyWrite(h, i) ==
  LET d == deliveries.handlers[h] IN
  /\ d.pc = "awaitFind"
  /\ i \in FindByProviderId(d.messageId)
  /\ deliveries' =
       Moved(h, [d EXCEPT
                   !.pc = "awaitUpdate",
                   !.emailLog = store[i],
                   !.updateData =
                     WholeRow(ApplyUpdate(store[i],
                                          parseResendWebhook(d.payload))),
                   !.calls = Append(d.calls, "update")])
  /\ UNCHANGED <<pipeline, bulk, bh, report, call, query>>

\* findOne resolves with row i: delivery h parses its payload and calls
\* update keyed by the row's id.
DeliveryFound(h, i) ==
  LET d == deliveries.handlers[h] IN
  /\ d.pc = "awaitFind"
  /\ i \in FindByProviderId(d.messageId)
  /\ deliveries' =
       Moved(h, [d EXCEPT !.pc = "awaitUpdate",
                          !.emailLog = store[i],
                          !.updateData = parseResendWebhook(d.payload),
                          !.calls = Append(d.calls, "update")])
  /\ UNCHANGED <<pipeline, bulk, bh, report, call, query>>

\* The update of delivery h resolves and its handler returns.
DeliveryUpdated(h) ==
  LET d == deliveries.handlers[h] IN
  /\ d.pc = "awaitUpdate"
  /\ store' = StoreUpdate(d.emailLog.id, d.updateData)
  /\ deliveries' =
       Moved(h, [d EXCEPT
                   !.pc = "done",
                   !.result =
                     [NoWhResult EXCEPT
                        !.kind = "ok", !.status = "OK",
                        !.message = "Email status updated successfully",
                        !.emailId = d.emailLog.id,
                        !.messageId = d.payload.id,
                        !.eventStatus = d.updateData.status]])
  /\ UNCHANGED <<options, now, send, wh, sendCount, whCount>>
  /\ UNCHANGED <<bulk, bh, report, call, query>>

\* findOne or update of delivery h rejects: the catch block wraps the error.
DeliveryStoreRaise(h) ==
  LET d == deliveries.handlers[h] IN
  /\ d.pc \in {"awaitFind", "awaitUpdate"}
  /\ deliveries' =
       Moved(h, [d EXCEPT
                   !.pc = "done",
                   !.result =
                     WhError("INTERNAL_SERVER_ERROR", "store error",
                             EMAIL_ERROR_CODES.INVALID_WEBHOOK_PAYLOAD)])
  /\ UNCHANGED <<pipeline, bulk, bh, report, call, query>>

\* A second entry with the vendor id of PriorEntry: the store puts no
\* uniqueness constraint on providerId.
TwinEntry ==
  [NewLogData(A2, A2, Absent, Absent, "html", "resend", None)
     EXCEPT !.id = <<"db", 2>>, !.status = "sent",
            !.providerId = MessageIdOf(0), !.sentAt = 1,
            !.createdAt = 1, !.updatedAt = 1]

\* Events for the entry in the store and for the message of the send in
\* progress.
DeliveryPayloads ==
  {Payload("email.delivered", 1, TRUE, m, NoId, None, None) :
     m \in {MessageIdOf(0), MessageIdOf(1)}}
  \cup {Payload("email.bounced", 2, TRUE, MessageIdOf(0), NoId, "hard", None),
        Payload("email.opened", 2, TRUE, NoId, MessageIdOf(0), None, None)}

\* ----------------------------------------------------------- specifications
\* EmailOptions, with the environment's signing secret and whether the svix
\* module can be loaded.
Options(adapters, defaultProvider, from, secret, envSecret, svix) ==
  [adapters |-> adapters, defaultProvider |-> defaultProvider,
   fromAddress |-> from, webhookSecret |-> secret,
   envSecret |-> envSecret, svixInstalled |-> svix]

InitRest ==
  /\ store = <<>>
  /\ now = 1
  /\ send = IdleSend
  /\ wh = IdleWh
  /\ sendCount = 0
  /\ whCount = 0
  /\ bulk = IdleBulk
  /\ bh = IdleBh
  /\ report = IdleReport
  /\ call = IdleCall
  /\ query = IdleQuery
  /\ deliveries = NoDeliveries

\* The send pipeline under every adapter registry and default.
Init ==
  /\ options \in {Options(a, d, f, None, None, TRUE) :
                    a \in SUBSET Providers, d \in {None} \cup Providers,
                    f \in {Absent, A2}}
  /\ InitRest

SendSteps ==
  \/ \E o \in UNION {AdapterOutcomes(n, sendCount) : n \in Providers} :
       SendEmailAdapterReturn(o)
  \/ SendEmailCreated
  \/ SendEmailCreateRaise
  \/ SendEmailFinish

Next ==
  \/ /\ sendCount < MaxSends
     /\ \E e \in {"send", "send-system"}, b \in SendBodies, u \in Sessions :
          SendEmailCall(e, b, u)
  \/ SendSteps

Spec == Init /\ [][Next]_vars

\* The webhook reconciler over entries made by plain sends through Resend,
\* with and without a signing secret (from the options or the environment)
\* and with the svix module missing; requests arrive one at a time.
InitWebhook ==
  /\ options \in {Options({"resend"}, None, A2, c[1], c[2], c[3]) :
                    c \in {<<None, None, TRUE>>, <<"whsec", None, TRUE>>,
                           <<None, "envsec", TRUE>>,
                           <<"whsec", None, FALSE>>}}
  /\ InitRest

WebhookSteps ==
  \/ /\ whCount < MaxWebhooks
     /\ send.pc \in {"idle", "done"}
     /\ \E r \in WebhookRequests : WebhookCall(r)
  \/ WebhookNotFound
  \/ \E i \in 1..Len(store) : WebhookFound(i)
  \/ WebhookUpdated
  \/ WebhookStoreRaise

NextWebhook ==
  \/ /\ sendCount < MaxLogged
     /\ wh.pc \in {"idle", "done"}
     /\ SendEmailCall("send-system", PlainBody, None)
  \/ SendSteps
  \/ WebhookSteps

SpecWebhook == InitWebhook /\ [][NextWebhook]_vars

\* One call of an adapter's sendBulkEmails on every request list.
InitBulk ==
  /\ options = Options({"resend"}, None, A2, None, None, TRUE)
  /\ store = <<>>
  /\ now = 1
  /\ send = IdleSend
  /\ wh = IdleWh
  /\ sendCount = 0
  /\ whCount = 0
  /\ bh = IdleBh
  /\ report = IdleReport
  /\ call = IdleCall
  /\ query = IdleQuery
  /\ deliveries = NoDeliveries
  /\ \E emails \in BulkInputs :
       bulk = [IdleBulk EXCEPT
                 !.pc = "loop", !.emails = emails,
                 !.state = [k \in 1..Len(emails) |-> "queued"],
                 !.dispatched = [k \in 1..Len(emails) |-> 0]]

NextBulk ==
  \/ BulkDispatch
  \/ \E k \in 1..MaxEmails : BulkSettle(k)
  \/ BulkJoin
  \/ BulkReturn

SpecBulk == InitBulk /\ [][NextBulk]_vars

\* The entry an earlier send through Resend left in the store.
PriorEntry ==
  [NewLogData(A2, A1, Absent, Absent, "html", "resend", "u2")
     EXCEPT !.id = <<"db", 1>>, !.status = "sent",
            !.providerId = MessageIdOf(0), !.sentAt = 1,
            !.createdAt = 1, !.updatedAt = 1]

\* One call of /email/send-bulk, on an empty store or after an earlier
\* send, under registries with the Resend adapter, a SendGrid adapter, the
\* Bravo placeholder and none.
InitBulkHandler ==
  /\ options \in {Options(c[1], c[2], c[3], None, None, TRUE) :
                    c \in {<<{"resend"}, None, A2>>,
                           <<{"resend", "sendgrid"}, None, Absent>>,
                           <<{"bravo"}, "bravo", A2>>,
                           <<{}, None, A2>>}}
  /\ store \in {<<>>, <<PriorEntry>>}
  /\ now = 2
  /\ send = IdleSend
  /\ wh = IdleWh
  /\ sendCount = 0
  /\ whCount = 0
  /\ bulk = IdleBulk
  /\ bh = IdleBh
  /\ report = IdleReport
  /\ call = IdleCall
  /\ query = IdleQuery
  /\ deliveries = NoDeliveries

NextBulkHandler ==
  \/ /\ bh.pc = "idle"
     /\ \E b \in BulkBodies, u \in Sessions : BulkSendCall(b, u)
  \/ \E o \in UNION {BulkOutcomes(n, Len(bh.emails), sendCount) :
                       n \in Providers} : BulkSendAdapterReturn(o)
  \/ BulkLogElement
  \/ BulkLogRaise
  \/ BulkSendFinish

SpecBulkHandler == InitBulkHandler /\ [][NextBulkHandler]_vars

\* calculateEmailStats applied to every list of at most MaxLogs entries.
InitStats ==
  /\ options = Options({"resend"}, None, A2, None, None, TRUE)
  /\ InitRest

NextStats ==
  \/ /\ Len(report.emailLogs) < MaxLogs
     /\ \E status \in Statuses : StatsAddLog(status)
  \/ StatsCompute

SpecStats == InitStats /\ [][NextStats]_vars

\* validateEmailArray and determineContentType applied to every input.
InitHelpers ==
  /\ options = Options({"resend"}, None, A2, None, None, TRUE)
  /\ store = <<>>
  /\ now = 1
  /\ send = IdleSend
  /\ wh = IdleWh
  /\ sendCount = 0
  /\ whCount = 0
  /\ bulk = IdleBulk
  /\ bh = IdleBh
  /\ report = IdleReport
  /\ query = IdleQuery
  /\ deliveries = NoDeliveries
  /\ \/ \E emails \in EmailInputs :
          call = [IdleCall EXCEPT !.op = "validateEmailArray",
                                  !.args = <<emails>>]
     \/ \E html \in Contents, text \in Contents :
          call = [IdleCall EXCEPT !.op = "determineContentType",
                                  !.args = <<html, text>>]
     \/ \E arr \in AddressLists :
          call = [IdleCall EXCEPT !.op = "arrayToString", !.args = <<arr>>]
     \/ \E email \in EmailRequests, defaultSender \in {Absent, A2} :
          call = [IdleCall EXCEPT !.op = "SendGridEmailAdapter.sendEmail",
                                  !.args = <<email, defaultSender>>]

NextHelpers ==
  \/ CallValidateEmailArray
  \/ CallDetermineContentType
  \/ CallArrayToString
  \/ CallSendGridSendEmail

SpecHelpers == InitHelpers /\ [][NextHelpers]_vars

\* The service's methods called after the endpoints have served direct
\* requests, with the Resend adapter and a default from address.
InitService ==
  /\ options = Options({"resend"}, None, A2, None, None, TRUE)
  /\ InitRest

NextService ==
  \/ /\ sendCount < MaxSends
     /\ call.op = None
     /\ \E e \in {"send", "send-system"}, b \in SendBodies, u \in Sessions :
          SendEmailCall(e, b, u)
  \/ SendSteps
  \/ \E method \in ServiceMethods, user \in {A1, A2} :
       ServiceCall(method, user)
  \/ ServiceReturn

SpecService == InitService /\ [][NextService]_vars

\* One query of the logs or of the statistics on a store of at most
\* MaxRows entries.
InitQuery ==
  /\ options = Options({"resend"}, None, A2, None, None, TRUE)
  /\ store \in QueryStores
  /\ now = MaxRows + 1
  /\ send = IdleSend
  /\ wh = IdleWh
  /\ sendCount = 0
  /\ whCount = 0
  /\ bulk = IdleBulk
  /\ bh = IdleBh
  /\ report = IdleReport
  /\ call = IdleCall
  /\ query = IdleQuery
  /\ deliveries = NoDeliveries

NextQuery ==
  \/ /\ query.pc = "idle"
     /\ \E op \in {"getEmailLogs", "getEmailStats"}, q \in Queries,
           u \in Sessions : QueryCall(op, q, u)
  \/ QueryFound
  \/ QueryFindRaise

SpecQuery == InitQuery /\ [][NextQuery]_vars

\* Two concurrent deliveries and one plain send through Resend, over a
\* store holding nothing, one earlier entry, or two with one vendor id.
InitDeliveries ==
  /\ options = Options({"resend"}, None, A2, None, None, TRUE)
  /\ store \in {<<>>, <<PriorEntry>>, <<PriorEntry, TwinEntry>>}
  /\ now = 2
  /\ send = IdleSend
  /\ wh = IdleWh
  /\ sendCount = 0
  /\ whCount = 0
  /\ bulk = IdleBulk
  /\ bh = IdleBh
  /\ report = IdleReport
  /\ call = IdleCall
  /\ query = IdleQuery
  /\ deliveries = IdleDeliveries

NextDeliveries ==
  \/ /\ send.pc = "idle"
     /\ SendEmailCall("send-system", PlainBody, None)
  \/ SendSteps
  \/ \E h \in Slots, q \in DeliveryPayloads : DeliveryCall(h, q)
  \/ \E h \in Slots : DeliveryNotFound(h)
  \/ \E h \in Slots, i \in 1..Len(store) : DeliveryFound(h, i)
  \/ \E h \in Slots : DeliveryUpdated(h)
  \/ \E h \in Slots : DeliveryStoreRaise(h)

SpecDeliveries == InitDeliveries /\ [][NextDeliveries]_vars

\* ------------------------------------------------------------------- claims
\* The entry the send in progress (or just finished) created, if any.
Created == Len(store) = send.base + 1
LastEntry == store[Len(store)]

FailedEntry(e, x) ==
  e.status = "failed" /\ e.errorMessage = x /\ e.failedAt # NoDate

\* C1: when the adapter's sendEmail returns {success: false, error: x}, the
\* send fails with SEND_FAILED carrying x, and the create of a log entry
\* with status failed, errorMessage x and failedAt set has completed before
\* the error reaches the caller: nothing is propagated while the handler
\* waits for the adapter or the store, the entry is there as soon as the
\* create resolves, and a finished send shows the error exactly when it
\* left that entry.
C1_FailureLoggedBeforeError ==
  /\ send.pc \in {"awaitAdapter", "awaitCreate", "created"} =>
       send.result.kind = "none"
  /\ ( /\ send.pc = "created"
       /\ ~send.sendResult.success
       /\ send.sendResult.error \in ErrorMsgs ) =>
       Created /\ FailedEntry(LastEntry, send.sendResult.error)
  /\ ( /\ send.pc = "done"
       /\ send.result.kind = "error"
       /\ send.result.message \in ErrorMsgs ) =>
       /\ send.result.code = EMAIL_ERROR_CODES.SEND_FAILED
       /\ Created
       /\ FailedEntry(LastEntry, send.result.message)
  /\ ( /\ send.pc = "done"
       /\ Created
       /\ LastEntry.status = "failed"
       /\ LastEntry.errorMessage \in ErrorMsgs ) =>
       /\ send.result.kind = "error"
       /\ send.result.code = EMAIL_ERROR_CODES.SEND_FAILED
       /\ send.result.message = LastEntry.errorMessage

C1_Witness ==
  /\ send.pc = "done"
  /\ send.result.code = EMAIL_ERROR_CODES.SEND_FAILED
  /\ send.result.message \in ErrorMsgs
  /\ Created
  /\ FailedEntry(LastEntry, send.result.message)

\* C2: every send that reached the adapter invocation has created exactly
\* one entry by the time it returns or raises (the store itself not
\* failing), whatever the adapter did.
C2_OneEntryPerAttempt ==
  ( /\ send.pc = "done"
    /\ send.calls # <<>>
    /\ send.result.message # "store error" ) => Created

SentShape(e) ==
  /\ e.status = "sent"
  /\ e.sentAt # NoDate
  /\ e.failedAt = NoDate
  /\ e.errorMessage = None

FailedShape(e) ==
  /\ e.status = "failed"
  /\ e.failedAt # NoDate
  /\ e.errorMessage # None
  /\ e.sentAt = NoDate
  /\ e.providerId = NoId

\* C3: every entry a send creates has the sent shape (status sent, the
\* outcome's providerId, sentAt set, failedAt and errorMessage absent) when
\* the adapter outcome is success and the failed shape (status failed,
\* failedAt and errorMessage set, sentAt and providerId absent) when it is
\* failure; the send path persists no pending entry.
C3_TwoShapes ==
  /\ \A i \in 1..Len(store) :
       /\ SentShape(store[i]) \/ FailedShape(store[i])
       /\ store[i].status # "pending"
  /\ send.pc = "created" =>
       /\ Created
       /\ IF send.sendResult.success
          THEN /\ SentShape(LastEntry)
               /\ LastEntry.providerId = send.sendResult.providerId
          ELSE FailedShape(LastEntry)

C3_Witness ==
  /\ send.pc = "created"
  /\ send.sendResult.success
  /\ LastEntry.providerId = MessageIdOf(sendCount)
  /\ \E i \in 1..Len(store) : FailedShape(store[i])

C4_Malformed(b) ==
  \E f \in {b.to, b.cc, b.bcc} :
    f # AbsentList /\ \E k \in 1..Len(f) : ~isValidEmail(f[k])

C4_NoFrom(b) ==
  b.from \in {Absent, <<>>} /\ options.fromAddress \in {Absent, <<>>}

C4_NoAdapter(b) ==
  b.provider \notin options.adapters
  /\ (IF options.defaultProvider # None THEN options.defaultProvider
      ELSE "resend") \notin options.adapters

\* C4: a send with a malformed to/cc/bcc address, or with no from address
\* in the request and none configured, or with neither the requested nor
\* the default provider registered, fails without a call to an adapter's
\* sendEmail and without a store create.  (SendEmailPrepare decides this
\* from the options and the request only, so the requests are enumerated
\* before the first send.)
C4_FailFast ==
  /\ [](send.pc = "idle" =>
          \A e \in {"send", "send-system"}, b \in SendBodies, u \in Sessions :
            (C4_Malformed(b) \/ C4_NoFrom(b) \/ C4_NoAdapter(b)) =>
              LET r == SendEmailPrepare(e, b, u)
              IN r.pc = "done" /\ r.result.kind = "error" /\ r.calls = <<>>)
  /\ [][(send'.pc = "done" /\ send'.calls = <<>>) => store' = store]_vars

C4_Witness ==
  /\ send.pc = "done"
  /\ send.result.message = "Invalid email addresses"
  /\ send.calls = <<>>
  /\ Len(store) > 0
  /\ Len(store) = send.base

\* C5: with a secret configured and a signature header present that fails
\* verification the handler fails with UNAUTHORIZED before the store is
\* read or written; with no secret configured the same well-formed payload
\* goes on to the lookup and the matching entry is updated with the parsed
\* event.  (WebhookPrepare reads the options and the request only, so the
\* requests are enumerated before the first webhook.)
C5_SignatureEnforced ==
  /\ [](wh.pc = "idle" =>
          \A r \in WebhookRequests :
            /\ ( /\ r.hasBody
                 /\ WebhookSecret # None
                 /\ r.headers.svixSignature
                 /\ ~verifyWebhookSignature(r.headers, r.genuine) ) =>
                 LET w == WebhookPrepare(r)
                 IN /\ w.pc = "done"
                    /\ w.result.status = "UNAUTHORIZED"
                    /\ w.calls = <<>>
            /\ ( /\ WebhookSecret = None
                 /\ r.hasBody /\ r.jsonValid /\ r.payload.hasData
                 /\ MessageId(r.payload) # NoId ) =>
                 WebhookPrepare(r).pc = "awaitFind")
  /\ [][ /\ (wh' # wh /\ wh'.result.status = "UNAUTHORIZED") =>
              store' = store /\ wh'.calls = <<>>
         /\ (wh.pc = "awaitUpdate" /\ wh'.result.kind = "ok") =>
              \E i \in FindRows(store, wh.messageId) :
                /\ store[i].id = wh'.result.emailId
                /\ store' = [store EXCEPT ![i] =
                               ApplyUpdate(store[i],
                                           parseResendWebhook(wh.payload))]
       ]_vars

C5_Witness ==
  /\ wh.pc = "done"
  /\ wh.result.status = "UNAUTHORIZED"
  /\ wh.calls = <<>>
  /\ WebhookSecret # None
  /\ \E i \in 1..Len(store) : store[i].providerId = MessageIdOf(1)

\* C6: with a webhook secret configured, every webhook request that leads
\* to an update of a log entry has had its signature verified against the
\* secret.
C6_UpdatesAreVerified ==
  (wh.pc = "awaitUpdate" /\ WebhookSecret # None) => wh.verified

\* C7: handling the same event twice leaves every entry in the state
\* reached after handling it once, for every store the system can build
\* and every event.
C7_Idempotent ==
  (wh.pc \in {"idle", "done"} /\ send.pc \in {"idle", "done"}) =>
    \A q \in Payloads :
      \A s1 \in HandleOnce(store, q) :
        \A s2 \in HandleOnce(s1, q) : s2 = s1

C7_Witness ==
  /\ wh.pc = "awaitUpdate"
  /\ wh.emailLog.status = "delivered"
  /\ wh.payload.type = "email.delivered"
  /\ ApplyUpdate(wh.emailLog, wh.updateData) = wh.emailLog

\* C8: when findOne resolves with no entry for the webhook's message id,
\* the handler returns success with the "no matching email log found"
\* message, having called nothing but findOne, and every entry is
\* unchanged.
C8_UnknownIdNoMutation ==
  [][ ( /\ wh.pc = "awaitFind"
        /\ FindRows(store, wh.messageId) = {}
        /\ wh'.pc = "done"
        /\ wh'.result.message # "store error" ) =>
        /\ wh'.result.kind = "ok"
        /\ wh'.result.message =
             "Webhook received but no matching email log found"
        /\ wh'.calls = <<"findOne">>
        /\ store' = store
    ]_vars

C8_Witness ==
  /\ wh.pc = "done"
  /\ wh.result.kind = "ok"
  /\ wh.result.message = "Webhook received but no matching email log found"
  /\ wh.calls = <<"findOne">>
  /\ Len(store) > 0

C9_Map(e) ==
  CASE e = "email.sent" -> "sent"
    [] e = "email.delivered" -> "delivered"
    [] e = "email.opened" -> "opened"
    [] e = "email.clicked" -> "clicked"
    [] e = "email.bounced" -> "bounced"
    [] e = "email.complained" -> "complained"
    [] e = "email.failed" -> "failed"
    [] e = "email.delivery_delayed" -> "delivery_delayed"
    [] OTHER -> "pending"

\* C9: whatever the matched entry's current status, the update the handler
\* hands to the store carries status map(event type), the updated entry
\* has that status, and a request is never rejected for its event type: a
\* rejected request is rejected with the same error under every type.
C9_DirectEffect ==
  /\ wh.pc = "awaitUpdate" =>
       /\ wh.updateData.status = C9_Map(wh.payload.type)
       /\ \A i \in 1..Len(store) :
            store[i].id = wh.emailLog.id =>
              ApplyUpdate(store[i], wh.updateData).status =
                C9_Map(wh.payload.type)
  /\ (wh.pc = "done" /\ wh.result.emailId # NoId) =>
       \E i \in 1..Len(store) :
         /\ store[i].id = wh.result.emailId
         /\ store[i].status = wh.result.eventStatus
         /\ store[i].status \in {C9_Map(e) : e \in EventTypes}
  /\ wh.pc = "idle" =>
       \A r \in WebhookRequests, e \in EventTypes :
         /\ WebhookPrepare([r EXCEPT !.payload.type = e]).pc =
              WebhookPrepare(r).pc
         /\ WebhookPrepare([r EXCEPT !.payload.type = e]).result =
              WebhookPrepare(r).result

C9_Witness ==
  /\ wh.pc = "done"
  /\ wh.result.eventStatus = "pending"
  /\ \E i \in 1..Len(store) :
       /\ store[i].id = wh.result.emailId
       /\ store[i].status = "pending"
       /\ store[i].sentAt # NoDate

\* pending -> sent -> {delivered, bounced, complained, failed,
\* delivery_delayed} -> opened -> clicked
C10_Rank(status) ==
  CASE status = "pending" -> 0
    [] status = "sent" -> 1
    [] status \in {"delivered", "bounced", "complained", "failed",
                   "delivery_delayed"} -> 2
    [] status = "opened" -> 3
    [] status = "clicked" -> 4

\* C10 as stated: no step moves an entry's status backward in the order.
C10_Monotonic ==
  [][\A i \in 1..Len(store) :
       C10_Rank(store'[i].status) >= C10_Rank(store[i].status)]_vars

\* C10: an entry's status moves backward in the order only when the store
\* applies a webhook event for that very entry whose mapped status ranks
\* below the entry's current status; an event whose mapped status ranks at
\* or above it never moves the entry backward, and no other entry and no
\* other operation changes a status.
C10_BackwardOnlyByLowerEvent ==
  [][\A i \in 1..Len(store) :
       /\ C10_Rank(store'[i].status) < C10_Rank(store[i].status) =>
            /\ wh.pc = "awaitUpdate"
            /\ store[i].id = wh.emailLog.id
            /\ store'[i].status = webhookEventToStatus(wh.payload.type)
            /\ C10_Rank(webhookEventToStatus(wh.payload.type))
                 < C10_Rank(store[i].status)
       /\ store'[i].status # store[i].status =>
            wh.pc = "awaitUpdate" /\ store[i].id = wh.emailLog.id
    ]_vars

C10_Witness ==
  \E i \in 1..Len(store) :
    /\ store[i].status = "delivered"
    /\ store[i].openedAt # NoDate
    /\ store[i].deliveredAt # NoDate

\* C11: providerId is set at creation only, to the adapter outcome's id
\* when the send succeeded and to nothing when it failed, and no later
\* step, webhook updates included, gives an existing entry another value.
C11_ProviderIdStable ==
  [][ /\ \A i \in 1..Len(store) :
           store'[i].providerId = store[i].providerId
      /\ Len(store') = Len(store) + 1 =>
           LET e == store'[Len(store')]
           IN IF send.sendResult.success
              THEN e.providerId = send.sendResult.providerId
              ELSE e.providerId = NoId
    ]_vars

C11_Witness ==
  /\ wh.pc = "done"
  /\ wh.result.message = "Email status updated successfully"
  /\ wh.result.messageId = NoId
  /\ \E i \in 1..Len(store) :
       /\ store[i].id = wh.result.emailId
       /\ store[i].status = "opened"
       /\ store[i].providerId = MessageIdOf(1)

\* C12: a webhook whose body is not valid JSON, or whose payload carries no
\* message id under data.id or data.email_id (the data object present or
\* not), and that was not turned away earlier, fails with BAD_REQUEST
\* having called neither findOne nor update.
C12_BadPayloadIsBadRequest ==
  wh.pc = "idle" =>
    \A r \in WebhookRequests :
      ( /\ r.hasBody
        /\ ~SignatureRejected(r)
        /\ \/ ~r.jsonValid
           \/ (r.payload.id = NoId /\ r.payload.email_id = NoId) ) =>
        LET w == WebhookPrepare(r)
        IN /\ w.pc = "done"
           /\ w.result.kind = "error"
           /\ w.result.status = "BAD_REQUEST"
           /\ w.calls = <<>>

\* C13: sendBulkEmails returns one outcome per request in input order,
\* results[k] being the outcome of emails[k], for every input length (0
\* and lengths that are no multiple of 10 included) and every completion
\* order, and dispatches each request to sendEmail exactly once.
C13_OneOutcomePerRequestInOrder ==
  /\ Len(bulk.results) <= Len(bulk.emails)
  /\ \A k \in 1..Len(bulk.results) :
       /\ bulk.results[k].success = (bulk.emails[k] = "ok")
       /\ bulk.results[k].providerId =
            (IF bulk.emails[k] = "ok" THEN MessageIdOf(k) ELSE NoId)
       /\ bulk.results[k].error =
            (CASE bulk.emails[k] = "ok" -> None
               [] bulk.emails[k] = "fail" -> "x"
               [] bulk.emails[k] = "reject" -> "boom")
  /\ \A k \in 1..Len(bulk.dispatched) : bulk.dispatched[k] <= 1
  /\ bulk.pc = "done" =>
       /\ Len(bulk.results) = Len(bulk.emails)
       /\ \A k \in 1..Len(bulk.dispatched) : bulk.dispatched[k] = 1

C13_Witness ==
  /\ bulk.pc = "done"
  /\ Len(bulk.emails) = 23
  /\ Len(bulk.results) = 23
  /\ bulk.emails[1] = "reject" /\ bulk.emails[2] = "fail"
  /\ bulk.results[3].providerId = MessageIdOf(3)

\* C14: a request whose send rejects yields a {success: false} outcome at
\* its own index only; the call never rejects as a whole, and every other
\* request, in the same batch and in later ones, is dispatched and reports
\* its own outcome.
C14_FailureIsolated ==
  /\ bulk.pc # "raised"
  /\ bulk.pc = "done" =>
       /\ Len(bulk.results) = Len(bulk.emails)
       /\ \A k \in 1..Len(bulk.emails) :
            /\ bulk.dispatched[k] = 1
            /\ bulk.emails[k] = "reject" => ~bulk.results[k].success
            /\ bulk.emails[k] = "ok" => bulk.results[k].success

C14_Witness ==
  /\ bulk.pc = "done"
  /\ Len(bulk.results) = 23
  /\ {k \in 1..23 : bulk.emails[k] = "reject"} = {6, 18}
  /\ {k \in 1..23 : ~bulk.results[k].success} = {6, 18}

\* C15: at most 10 sendEmail calls are in flight at any moment, and no
\* request of a later batch is dispatched while a request of an earlier
\* batch has not settled.
C15_BoundedFanOut ==
  /\ Cardinality(InFlight) <= 10
  /\ \A k \in 1..Len(bulk.state) :
       bulk.state[k] # "settled" =>
         \A j \in 1..Len(bulk.state) :
           ((j - 1) \div 10 > (k - 1) \div 10) => bulk.state[j] = "queued"

C15_Witness ==
  /\ Cardinality(InFlight) = 10
  /\ bulk.i = 10
  /\ Len(bulk.emails) > 20
  /\ \A k \in 1..10 : bulk.state[k] = "settled"

\* C16: a bulk send does not fail as a whole because the adapter reported
\* failures: once the adapter has returned its outcomes the call can only
\* raise out of the logging loop, and when the loop completes the call
\* returns success with total = number of requests, successful and failed
\* = the numbers of success and failure outcomes (adding up to total) and
\* the outcomes in request order.
RECURSIVE Successes(_)
Successes(results) ==
  IF results = <<>> THEN 0
  ELSE (IF Head(results).success THEN 1 ELSE 0) + Successes(Tail(results))

C16_Aggregate ==
  (bh.pc = "logging" /\ bh'.pc = "done") =>
    IF Len(store) = bh.base + Len(bh.emails)
    THEN /\ bh'.result.kind = "ok"
         /\ bh'.result.total = Len(bh.emails)
         /\ bh'.result.successful = Successes(bh.sendResults)
         /\ bh'.result.failed = Len(bh.emails) - Successes(bh.sendResults)
         /\ bh'.result.successful + bh'.result.failed = bh'.result.total
         /\ bh'.result.results = bh.sendResults
    ELSE /\ bh'.result.kind = "error"
         /\ bh'.result.message \in {"helper error", "store error"}

C16_PartialFailureIsSuccess == [][C16_Aggregate]_vars

C16_Witness ==
  /\ bh.pc = "done"
  /\ bh.result.kind = "ok"
  /\ bh.result.failed > 0
  /\ bh.result.successful > 0

\* C17: after a bulk send ends, every request that was dispatched to the
\* adapter has exactly one log entry, whose status, providerId and
\* errorMessage follow the outcome at the same index, even when the logging
\* loop raised part-way.
C17_EveryDispatchedLogged ==
  bh.pc = "done" =>
    /\ Len(store) = bh.base + bh.dispatched
    /\ \A j \in 1..bh.dispatched :
         LET e == store[bh.base + j]
             r == bh.sendResults[j]
         IN /\ e.status = (IF r.success THEN "sent" ELSE "failed")
            /\ e.providerId = r.providerId
            /\ e.errorMessage = (IF r.success THEN None ELSE r.error)

\* C18: a request naming a registered provider uses that provider's
\* adapter; a request naming an unregistered provider, or none, uses the
\* adapter of the configured default provider ("resend" when none is
\* configured); when the default provider is not registered in either of
\* those cases the send fails with ADAPTER_NOT_FOUND.  (The requests are
\* those that pass the session, address and from-address tests and carry
\* content; they are enumerated before the first send, since
\* SendEmailPrepare reads the options and the request only.)
C18_Default ==
  IF options.defaultProvider = None THEN "resend" ELSE options.defaultProvider

C18_Resolves(e, b, u) ==
  LET r == SendEmailPrepare(e, b, u)
  IN IF b.provider # None /\ b.provider \in options.adapters
       THEN r.pc = "awaitAdapter" /\ r.adapter = b.provider
     ELSE IF C18_Default \in options.adapters
       THEN r.pc = "awaitAdapter" /\ r.adapter = C18_Default
     ELSE /\ r.pc = "done"
          /\ r.result.kind = "error"
          /\ r.result.code = EMAIL_ERROR_CODES.ADAPTER_NOT_FOUND
          /\ r.calls = <<>>

C18_AdapterResolution ==
  /\ [](send.pc = "idle" =>
          \A e \in {"send", "send-system"}, b \in SendBodies, u \in Sessions :
            (/\ (e = "send" => u # None)
             /\ ~C4_Malformed(b)
             /\ ~C4_NoFrom(b)
             /\ (Truthy(b.html) \/ Truthy(b.text))) => C18_Resolves(e, b, u))
  /\ [](send.pc \in {"awaitAdapter", "awaitCreate"} =>
          /\ send.adapter \in options.adapters
          /\ send.data.provider = send.adapter)

C18_Witness ==
  /\ send.pc = "done"
  /\ send.result.code = EMAIL_ERROR_CODES.ADAPTER_NOT_FOUND
  /\ options.adapters # {}
  /\ options.defaultProvider = None

\* C19: calculateEmailStats equals the reference definition for every
\* list of entries: total = number of entries; sent = number with status
\* sent or delivered; delivered, opened, clicked, bounced, complained and
\* failed = number whose status is exactly that; openRate = opened /
\* delivered * 100 and clickRate = clicked / delivered * 100 when
\* delivered > 0, else 0; bounceRate = bounced / sent * 100 when sent > 0,
\* else 0.
C19_N(statuses) ==
  Cardinality({k \in 1..Len(report.emailLogs) :
                 report.emailLogs[k].status \in statuses})

\* rate = n / d * 100 when d > 0, and 0 otherwise.
C19_IsRate(rate, n, d) ==
  /\ rate.den > 0
  /\ IF d > 0 THEN rate.num * d = n * 100 * rate.den ELSE rate.num = 0

C19_StatsMatchReference ==
  report.stats # NoStats =>
    /\ report.stats.total = Len(report.emailLogs)
    /\ report.stats.sent = C19_N({"sent", "delivered"})
    /\ \A s \in {"delivered", "opened", "clicked", "bounced", "complained",
                  "failed"} : report.stats[s] = C19_N({s})
    /\ C19_IsRate(report.stats.openRate, C19_N({"opened"}),
                  C19_N({"delivered"}))
    /\ C19_IsRate(report.stats.clickRate, C19_N({"clicked"}),
                  C19_N({"delivered"}))
    /\ C19_IsRate(report.stats.bounceRate, C19_N({"bounced"}),
                  C19_N({"sent", "delivered"}))

C19_Witness ==
  /\ report.stats # NoStats
  /\ report.stats.sent > report.stats.delivered
  /\ report.stats.delivered > 1
  /\ report.stats.clickRate.num > 0
  /\ report.stats.bounceRate.num > 0

\* C20 as stated: for the statuses delivered, delivered, opened, bounced,
\* failed the statistics are total 5, sent 3, delivered 2, opened 1,
\* bounced 1, openRate 50 and bounceRate 1/3 * 100.
C20_Example ==
  <<[status |-> "delivered"], [status |-> "delivered"], [status |-> "opened"],
    [status |-> "bounced"], [status |-> "failed"]>>

C20_SentIsThree ==
  (report.emailLogs = C20_Example /\ report.stats # NoStats) =>
    /\ report.stats.total = 5
    /\ report.stats.sent = 3
    /\ report.stats.delivered = 2
    /\ report.stats.opened = 1
    /\ report.stats.bounced = 1
    /\ report.stats.openRate = [num |-> 50, den |-> 1]
    /\ report.stats.bounceRate = [num |-> 100, den |-> 3]

\* C20: for those statuses the statistics are total 5, sent 2 (the two
\* delivered entries), delivered 2, opened 1, bounced 1, failed 1,
\* openRate 50 and bounceRate 1/2 * 100 = 50.
C20_SentIsTwo ==
  (report.emailLogs = C20_Example /\ report.stats # NoStats) =>
    /\ report.stats.total = 5
    /\ report.stats.sent = 2
    /\ report.stats.delivered = 2
    /\ report.stats.opened = 1
    /\ report.stats.bounced = 1
    /\ report.stats.failed = 1
    /\ report.stats.openRate = [num |-> 50, den |-> 1]
    /\ report.stats.bounceRate = [num |-> 50, den |-> 1]

C20_Witness == report.emailLogs = C20_Example /\ report.stats # NoStats

\* C21: validateEmailArray is atomic: when every address has the form
\* local@domain.tld it returns all the addresses in input order (a single
\* string as a one-element sequence); when some address is malformed the
\* call fails, its error names every malformed address and only those, and
\* no partial result is returned.
C21_Part(s) ==
  Len(s) > 0 /\ \A k \in 1..Len(s) : s[k] \notin Whitespace \cup {"@"}

C21_WellFormed(e) ==
  \E i \in 1..Len(e), j \in 1..Len(e) :
    /\ i < j
    /\ e[i] = "@"
    /\ e[j] = "."
    /\ C21_Part(SubSeq(e, 1, i - 1))
    /\ C21_Part(SubSeq(e, i + 1, j - 1))
    /\ C21_Part(SubSeq(e, j + 1, Len(e)))

C21_Atomic ==
  (call.op = "validateEmailArray" /\ call.done) =>
    LET given == IF call.args[1].isArray THEN call.args[1].array
                 ELSE <<call.args[1].string>>
        r == call.result
    IN IF \A k \in 1..Len(given) : C21_WellFormed(given[k])
       THEN r.ok /\ r.value = given /\ r.invalid = <<>>
       ELSE /\ ~r.ok
            /\ r.value = <<>>
            /\ r.invalid = SelectSeq(given, LAMBDA e : ~C21_WellFormed(e))

C21_Witness ==
  /\ call.op = "validateEmailArray"
  /\ call.done
  /\ call.args[1].isArray
  /\ ~call.result.ok
  /\ Len(call.args[1].array) = 3
  /\ Len(call.result.invalid) = 2
  /\ C21_WellFormed(call.args[1].array[1])

\* C22: determineContentType returns mixed when html and text are both
\* non-empty, html when only html is, text when only text is, and fails
\* when both are absent or empty; it returns nothing else.
C22_NonEmpty(s) == s # Absent /\ Len(s) > 0

C22_ContentType ==
  (call.op = "determineContentType" /\ call.done) =>
    LET html == C22_NonEmpty(call.args[1])
        text == C22_NonEmpty(call.args[2])
    IN /\ call.result \in {"mixed", "html", "text", "throw"}
       /\ call.result = "mixed" <=> (html /\ text)
       /\ call.result = "html" <=> (html /\ ~text)
       /\ call.result = "text" <=> (~html /\ text)
       /\ call.result = "throw" <=> (~html /\ ~text)

C22_Witness ==
  /\ call.op = "determineContentType"
  /\ call.done
  /\ call.args = <<<<>>, Absent>>
  /\ call.result = "throw"

\* C23: every persisted entry has a toAddress that is neither absent nor
\* empty.
C23_ToAddressNeverEmpty ==
  \A k \in 1..Len(store) :
    store[k].toAddress # Absent /\ Len(store[k].toAddress) > 0

\* C24: the system-level send is the authenticated send without the
\* session test and the userId: for the same body both handlers take the
\* same path to the same adapter with the same log data, save that the
\* authenticated send fails with UNAUTHORIZED before any adapter or store
\* call when there is no session and records the session user's id, while
\* the system send ignores the session and records no userId; the steps
\* after the adapter call do not depend on the endpoint, so the persisted
\* entries differ in userId only.  (SendEmailPrepare reads the options and
\* the request only, so the requests are enumerated before the first send.)
C24_Erase(s) == [s EXCEPT !.endpoint = None, !.data.userId = None]

C24_SameButSession ==
  /\ [](send.pc = "idle" =>
          \A b \in SendBodies :
            LET sys == SendEmailPrepare("send-system", b, None)
            IN /\ \A u \in Sessions :
                    SendEmailPrepare("send-system", b, u) = sys
               /\ sys.data.userId = None
               /\ LET r == SendEmailPrepare("send", b, None)
                  IN /\ r.pc = "done"
                     /\ r.result.status = "UNAUTHORIZED"
                     /\ r.calls = <<>>
               /\ \A u \in Sessions \ {None} :
                    LET r == SendEmailPrepare("send", b, u)
                    IN /\ C24_Erase(r) = C24_Erase(sys)
                       /\ r.pc = "awaitAdapter" => r.data.userId = u)
  /\ [][Len(store') = Len(store) + 1 =>
          /\ store' = StoreCreate(send.data)
          /\ send.data.userId = None <=> send.endpoint = "send-system"]_vars
  /\ [](send.pc = "done" /\ send.result.status = "UNAUTHORIZED" =>
          Len(store) = send.base)

C24_Witness ==
  /\ Len(store) = 2
  /\ send.pc = "done"
  /\ store[1].userId = None
  /\ store[2].userId # None
  /\ store[2] = [store[1] EXCEPT !.userId = store[2].userId,
                                 !.id = store[2].id,
                                 !.providerId = store[2].providerId,
                                 !.sentAt = store[2].sentAt,
                                 !.createdAt = store[2].createdAt,
                                 !.updatedAt = store[2].updatedAt]

\* C25: each account-lifecycle notification of EmailService is sent
\* through the system-level send path and is not turned down for want of a
\* session, however the adapter and the store behave.
C25_LifecycleViaSystemPath ==
  call.op \in ServiceMethods =>
    /\ send.endpoint = "send-system"
    /\ send.pc = "done" => send.result.status # "UNAUTHORIZED"

\* C26: an unexpected exception during an endpoint operation is caught at
\* the endpoint and surfaced as an internal error carrying the original
\* message: a logs or statistics query never ends with an exception the
\* handler did not turn into an APIError.
C26_NoRawException ==
  query.pc = "done" =>
    /\ query.result.kind \in {"ok", "error"}
    /\ query.result.kind = "error" =>
         query.result.status \in {"UNAUTHORIZED", "INTERNAL_SERVER_ERROR"}

\* C27: updatedAt is bumped on every mutation: over any sequence of webhook
\* events an entry's updatedAt never decreases and is never earlier than
\* its createdAt.
C27_UpdatedAtNeverDecreases ==
  /\ [](\A k \in 1..Len(store) : store[k].updatedAt >= store[k].createdAt)
  /\ [][\A k \in 1..Len(store) :
          k <= Len(store') => store'[k].updatedAt >= store[k].updatedAt]_vars

\* C28: the emailId a send returns is the id under which its entry is
\* persisted, and it is the id the webhook handler later finds for that
\* entry and reports as emailId.
C28_ReturnedIdIsPersistedId ==
  /\ (send.pc = "done" /\ send.result.kind = "ok") =>
       /\ Len(store) > send.base
       /\ store[send.base + 1].id = send.result.emailId
  /\ (wh.pc = "done" /\ wh.result.kind = "ok" /\ wh.result.emailId # NoId) =>
       \E k \in 1..Len(store) : store[k].id = wh.result.emailId

C30_MissingFromFailsFast ==
  /\ bh.calls # <<>> =>
       \A k \in 1..Len(bh.emails) : Truthy(bh.emails[k].from)
  /\ \A k \in 1..Len(store) : Truthy(store[k].fromAddress)

\* C31: concurrent deliveries for one message id are safe without locking.
\* When two deliveries whose lookups and updates interleaved have both
\* returned, and no entry was created meanwhile, the store is one that
\* handling the two payloads one after the other, in one of the two orders,
\* can leave; and when the two carry the same event, every entry is as it
\* was or as a single application of the event leaves it, and a matched
\* entry is in the latter state.
C31_Sequential(st, p, q) ==
  UNION {HandleOnce(s, q) : s \in HandleOnce(st, p)}

C31_Settled ==
  /\ \A h \in Slots : /\ deliveries.handlers[h].pc = "done"
                      /\ deliveries.handlers[h].result.kind = "ok"
  /\ Len(store) = Len(deliveries.base)

C31_Once(st, p) ==
  /\ \A i \in 1..Len(st) :
       store[i] \in {st[i], ApplyUpdate(st[i], parseResendWebhook(p))}
  /\ FindRows(st, MessageId(p)) # {} =>
       \E i \in FindRows(st, MessageId(p)) :
         store[i] = ApplyUpdate(st[i], parseResendWebhook(p))

C31_ConcurrentIsSequential ==
  C31_Settled =>
    LET p == deliveries.handlers[1].payload
        q == deliveries.handlers[2].payload
        st == deliveries.base
    IN /\ store \in C31_Sequential(st, p, q) \cup C31_Sequential(st, q, p)
       /\ p = q => C31_Once(st, p)

\* Both deliveries read the entry as it was before either wrote, carried
\* different events, and both updates were applied.
C31_Witness ==
  /\ C31_Settled
  /\ Len(store) >= 1
  /\ \A h \in Slots : /\ deliveries.handlers[h].updateData # NoUpdate
                      /\ deliveries.handlers[h].emailLog = deliveries.base[1]
  /\ deliveries.handlers[1].payload.type = "email.delivered"
  /\ deliveries.handlers[2].payload.type = "email.bounced"
  /\ store[1].deliveredAt = 1
  /\ store[1].bouncedAt = 2

\* C32: errorMessage is set only on failure or negative terminal events.
\* As claimed: every entry that carries an errorMessage has the status
\* failed, bounced or complained.
C32_Negative == {"failed", "bounced", "complained"}

C32_ErrorOnlyWhenNegative ==
  \A i \in 1..Len(store) :
    store[i].errorMessage # None => store[i].status \in C32_Negative

\* C32, as the code has it: an errorMessage is written only together with
\* failedAt, bouncedAt or complainedAt and none of them is ever cleared, so
\* every entry that carries an errorMessage carries one of those
\* timestamps, whatever its status has become since.
C32_ErrorOnlyAfterNegative ==
  [](\A i \in 1..Len(store) :
       store[i].errorMessage # None =>
         \/ store[i].failedAt # NoDate
         \/ store[i].bouncedAt # NoDate
         \/ store[i].complainedAt # NoDate)

\* A bounced entry that a later event moved to another status.
C32_Witness ==
  \E i \in 1..Len(store) :
    /\ store[i].errorMessage = "Bounced: hard"
    /\ store[i].bouncedAt # NoDate
    /\ store[i].status \notin C32_Negative

\* C33: handling an event writes at most one status timestamp, the one of
\* its event type, set to the event's created_at; delivery_delayed and
\* unrecognized events write none; every other status timestamp, createdAt,
\* id, the address fields, contentType, provider and userId keep their
\* values.  (subject and content are no keys of the update data either;
\* the rows of this model do not carry them.)
C33_Timestamps ==
  {"sentAt", "deliveredAt", "openedAt", "clickedAt", "bouncedAt",
   "complainedAt", "failedAt"}

C33_Frame ==
  {"id", "createdAt", "fromAddress", "toAddress", "ccAddress", "bccAddress",
   "contentType", "provider", "userId"}

C33_Field(type) ==
  CASE type = "email.sent" -> "sentAt"
    [] type = "email.delivered" -> "deliveredAt"
    [] type = "email.opened" -> "openedAt"
    [] type = "email.clicked" -> "clickedAt"
    [] type = "email.bounced" -> "bouncedAt"
    [] type = "email.complained" -> "complainedAt"
    [] type = "email.failed" -> "failedAt"
    [] OTHER -> "none"

C33_OneTimestamp ==
  [][\/ store' = store /\ wh.pc # "awaitUpdate"
     \/ \A i \in 1..Len(store) :
          LET f == C33_Field(wh.payload.type) IN
          /\ \A g \in C33_Frame : store'[i][g] = store[i][g]
          /\ \A g \in C33_Timestamps :
               store'[i][g] # store[i][g] =>
                 /\ wh.pc = "awaitUpdate"
                 /\ g = f
          /\ (wh.pc = "awaitUpdate" /\ wh'.result.kind = "ok"
                /\ store[i].id = wh.emailLog.id /\ f # "none") =>
               store'[i][f] = wh.payload.created_at
    ]_vars

\* A delivery event was applied to a sent entry: deliveredAt is the event's
\* time and sentAt is still the send's.
C33_Witness ==
  /\ wh.pc = "done"
  /\ wh.result.eventStatus = "delivered"
  /\ \E i \in 1..Len(store) :
       /\ store[i].id = wh.result.emailId
       /\ store[i].deliveredAt = 1
       /\ store[i].sentAt = 2

\* C34: the errorMessage a webhook writes is a function of the event alone:
\* 'Bounced: b' for email.bounced with bounce_type b, 'Complained: c' for
\* email.complained with complaint_type c, 'Email delivery failed' for
\* email.failed; a bounced or complained event without a subtype, and every
\* other event type, leaves the entry's errorMessage as it was.
C34_Message(payload, previous) ==
  CASE payload.type = "email.bounced" /\ payload.bounce_type = "hard" ->
         "Bounced: hard"
    [] payload.type = "email.bounced" /\ payload.bounce_type = "soft" ->
         "Bounced: soft"
    [] payload.type = "email.complained" /\ payload.complaint_type = "abuse" ->
         "Complained: abuse"
    [] payload.type = "email.failed" -> "Email delivery failed"
    [] OTHER -> previous

C34_MessageFromEvent ==
  [][\A i \in 1..Len(store) :
       /\ (wh.pc = "awaitUpdate" /\ wh'.result.kind = "ok"
             /\ store[i].id = wh.emailLog.id) =>
            store'[i].errorMessage =
              C34_Message(wh.payload, store[i].errorMessage)
       /\ store'[i].errorMessage # store[i].errorMessage =>
            wh.pc = "awaitUpdate" /\ store[i].id = wh.emailLog.id
    ]_vars

\* A bounce with a subtype was applied, and then an event that carries no
\* message left it in place.
C34_Witness ==
  /\ wh.pc = "done"
  /\ wh.result.eventStatus \in {"delivered", "opened", "delivery_delayed"}
  /\ \E i \in 1..Len(store) :
       /\ store[i].id = wh.result.emailId
       /\ store[i].errorMessage \in {"Bounced: hard", "Bounced: soft"}

\* C35: each handled webhook looks up the entry by providerId equal to the
\* payload's message id (data.id when present, otherwise data.email_id) and
\* performs at most one store update, keyed by the matched entry's id; no
\* entry other than the one the lookup returned changes, even when several
\* entries share the providerId.
C35_MessageId(payload) ==
  IF payload.id # NoId THEN payload.id ELSE payload.email_id

C35_Updates(calls) == Cardinality({k \in 1..Len(calls) : calls[k] = "update"})

C35_LookupThenOneUpdate ==
  /\ [](\A h \in Slots :
          LET d == deliveries.handlers[h] IN
          /\ C35_Updates(d.calls) <= 1
          /\ d.pc \in {"awaitFind", "awaitUpdate"} =>
               d.messageId = C35_MessageId(d.payload)
          /\ d.pc = "awaitUpdate" =>
               d.emailLog.providerId = C35_MessageId(d.payload))
  /\ [][\A i \in 1..Len(store) :
          store'[i] # store[i] =>
            \E h \in Slots :
              LET d == deliveries.handlers[h] IN
              /\ d.pc = "awaitUpdate"
              /\ deliveries'.handlers[h].pc = "done"
              /\ store[i].id = d.emailLog.id
              /\ \A j \in 1..Len(store) : j # i => store'[j] = store[j]
     ]_vars

\* Two entries share a providerId, a delivery for it has been applied to
\* the first and the second is as it was.
C35_Witness ==
  /\ Len(store) >= 2
  /\ store[1].providerId = store[2].providerId
  /\ store[2] = TwinEntry
  /\ store[1].status = "delivered"
  /\ \E h \in Slots :
       /\ deliveries.handlers[h].pc = "done"
       /\ deliveries.handlers[h].result.emailId = store[1].id

\* C36: joining and splitting address lists round-trips: for every
\* non-empty list xs of addresses that validateEmailArray accepts,
\* stringToArray(arrayToString(xs)) is xs, and arrayToString of an empty or
\* absent list is absent, never the empty string.
C36_RoundTrip ==
  (call.op = "arrayToString" /\ call.done) =>
    LET xs == call.args[1] IN
    IF xs = AbsentList \/ Len(xs) = 0
    THEN call.result.string = Absent /\ call.result.string # <<>>
    ELSE call.result.array = xs

\* C37: every webhook event whose message id a successful send of this
\* system returned is applied to that send's entry, however its handling
\* interleaves with the send -- also when it is handled after the adapter
\* returned the id and before the send has created the entry.  Every
\* delivery that was acknowledged for such an id has updated an entry.
C37_ReturnedBySend(m) ==
  \/ send.sendResult.success /\ send.sendResult.providerId = m
  \/ send.result.kind = "ok" /\ send.result.providerId = m

C37_EveryEventApplied ==
  \A h \in Slots :
    LET d == deliveries.handlers[h] IN
    (d.pc = "done" /\ d.result.kind = "ok" /\ C37_ReturnedBySend(d.messageId))
      => /\ d.result.message = "Email status updated successfully"
         /\ \E i \in 1..Len(store) :
              /\ store[i].providerId = d.messageId
              /\ store[i].id = d.result.emailId

\* C38: openRate, clickRate and bounceRate returned by calculateEmailStats
\* are percentages between 0 and 100, for every list of entries.
C38_IsPercentage(rate) ==
  /\ rate.den > 0
  /\ 0 <= rate.num
  /\ rate.num <= 100 * rate.den

C38_RatesArePercentages ==
  report.stats # NoStats =>
    /\ C38_IsPercentage(report.stats.openRate)
    /\ C38_IsPercentage(report.stats.clickRate)
    /\ C38_IsPercentage(report.stats.bounceRate)

\* C39: the result of an authenticated logs or stats query depends only on
\* the entries whose userId is the query's scope (the userId parameter when
\* supplied, otherwise the caller's session user id) and that match the
\* requested status / provider filters: the response is computed from those
\* entries alone, so two stores that agree on them give the same response,
\* and no entry of another user or without a userId appears in it.
C39_Scope(q, session) == IF q.userId # None THEN q.userId ELSE session

C39_Relevant(st, where) ==
  SelectSeq(st, LAMBDA row :
                  /\ row.userId # None
                  /\ row.userId = where.userId
                  /\ where.status \in {None, row.status}
                  /\ where.provider \in {None, row.provider})

C39_ScopedToUser ==
  /\ query.pc = "idle" =>
       \A q \in Queries, u \in Sessions \ {None} :
         /\ GetEmailLogsPrepare(q, u).where =
              [userId |-> C39_Scope(q, u), status |-> q.status,
               provider |-> q.provider]
         /\ GetEmailStatsPrepare(q, u).where =
              [userId |-> C39_Scope(q, u), status |-> None,
               provider |-> q.provider]
  /\ (query.pc = "done" /\ query.result.kind = "ok") =>
       LET mine == C39_Relevant(store, query.where) IN
       /\ query.result.userId = query.where.userId
       /\ \A k \in 1..Len(query.result.emailLogs) :
            query.result.emailLogs[k].userId = query.where.userId
       /\ query.op = "getEmailLogs" =>
            /\ query.result.emailLogs =
                 Page(SortDesc(mine), query.limit, query.offset)
            /\ query.result.count = Len(query.result.emailLogs)
       /\ query.op = "getEmailStats" =>
            query.result.stats = calculateEmailStats(mine)

\* A logs query scoped to u2 over a store that also holds an entry without
\* a userId returned u2's entry only.
C39_Witness ==
  /\ query.pc = "done"
  /\ query.op = "getEmailLogs"
  /\ query.result.kind = "ok"
  /\ query.where.userId = "u2"
  /\ Len(store) = 2
  /\ \E i \in 1..Len(store) : store[i].userId = None
  /\ Len(query.result.emailLogs) = 1

\* C40: SendGridEmailAdapter.sendEmail, given a request with a valid from
\* address, at least one valid recipient, a non-empty subject and html
\* content, passes its own validateEmailData check and invokes the
\* transport; it raises no validation error for such a request.
C40_ValidRequest(email) ==
  /\ email.from # Absent /\ isValidEmail(email.from)
  /\ Len(email.to) >= 1
  /\ \A k \in 1..Len(email.to) : isValidEmail(email.to[k])
  /\ Len(email.subject) > 0
  /\ email.html # Absent /\ Len(email.html) > 0

C40_ValidRequestIsSent ==
  (/\ call.op = "SendGridEmailAdapter.sendEmail"
   /\ call.done
   /\ C40_ValidRequest(call.args[1]))
    => /\ call.result.kind = "return"
       /\ call.result.sent
====
